---- MODULE Spec2Model ----
(***************************************************************************)
(* A model of the Agent Survival Simulation: the World/Cell resource and   *)
(* regrowth engine (models/cell.py, models/world.py), the Agent decision   *)
(* and energy state machine (models/agent.py), the TimeSystem phase        *)
(* synchronizer (simulation/time_system.py) and the Game coordinator's     *)
(* tick (simulation/game.py).                                              *)
(*                                                                         *)
(* The values of config.py are the static configuration of a run.  The     *)
(* grid size, the regrowth range, the cluster counts and sizes and the     *)
(* energy amounts are scaled down so that the state space is finite and    *)
(* small.  REGROWTH_ENABLED, MOVES_PER_DAY, INITIAL_CALORIES and           *)
(* INITIAL_SLEEP are fixed when a run starts and are drawn from small      *)
(* ranges, so that runs under different configurations are covered.        *)
(***************************************************************************)
EXTENDS Integers, Sequences, FiniteSets, TLC

(***************************************************************************)
(* Configuration (config.py)                                               *)
(***************************************************************************)
\* WORLD_SIZE = 50 in config.py; the grid is WORLD_SIZE x WORLD_SIZE
WORLD_SIZE == 2

\* MIN_REGROWTH_TIME = 300, MAX_REGROWTH_TIME = 400 in config.py
MIN_REGROWTH_TIME == 2

MAX_REGROWTH_TIME == 3

\* RESOURCE_VALUE = {"default": 10, "food": 20, "water": 15}
RESOURCE_VALUE_DEFAULT == 10

RESOURCE_VALUE_FOOD == 20

RESOURCE_VALUE_WATER == 15

\* RESOURCE_TYPES = ["food", "water"]
RESOURCE_TYPES == {"food", "water"}

\* Python's None, as a resource type and as a cluster id
NoType == "none"

NoCluster == 0 - 1

\* FOOD_CLUSTER_COUNT = 6 and WATER_CLUSTER_COUNT = 3 in config.py
FOOD_CLUSTER_COUNT == 1

WATER_CLUSTER_COUNT == 1

\* FOOD_CLUSTER_SIZE_RANGE = (10, 30), WATER_CLUSTER_SIZE_RANGE = (20, 40): the
\* largest target size of a cluster
FOOD_CLUSTER_SIZE_MAX == 2

WATER_CLUSTER_SIZE_MAX == 2

\* and the smallest target size of a cluster
FOOD_CLUSTER_SIZE_MIN == 1

WATER_CLUSTER_SIZE_MIN == 1

\* MAX_CALORIES = 50 and CALORIE_CONSUMPTION_PER_DAY = 25 in config.py
MAX_CALORIES == 4

CALORIE_CONSUMPTION_PER_DAY == 2

\* MAX_SLEEP = 100 and SLEEP_ENERGY_GAIN = 10 in config.py
MAX_SLEEP == 4

SLEEP_ENERGY_GAIN == 2

\* RESOURCE_SENSING_RANGE = 4 in config.py
RESOURCE_SENSING_RANGE == 1

\* HOME_BASE_POSITION = (25, 25) with WORLD_SIZE = 50: the center of the world
HOME_BASE_POSITION == <<WORLD_SIZE \div 2, WORLD_SIZE \div 2>>

\* the largest MOVES_PER_DAY (20 in config.py) a run is configured with
MaxMovesPerDay == 2

\* the largest number of agents of a game (--agents, NUM_AGENTS = 4)
MaxAgents == 2

\* the longest agent list passed to TimeSystem.update
MaxListed == 2

\* the ticks of a game and the day/night transitions followed
MaxTurns == 6

MaxCycles == 4

\* the most collected calories an agent is handed to its nightly routine with
MaxCollected == 3

\* src/Agent/agent.py: MATURITY_AGE = 50, REPRODUCTION_ENERGY_THRESHOLD = 150
MATURITY_AGE == 2

REPRODUCTION_ENERGY_THRESHOLD == 5

\* the 50 that reproduce() takes from the parent, the initial_energy=50 of the
\* offspring, and the 200 that eat() caps the energy at
REPRODUCTION_COST == 2

OFFSPRING_ENERGY == 2

MAX_ENERGY == 7

\* self.metabolism_rate = 1
METABOLISM_RATE == 1

\* how far from home, along each axis, the agents are created whose path home
\* is computed
PathReach == 2

\* the largest initial_energy a lifecycle agent is created with, the largest
\* food_energy it is fed, and the age up to which its ticks are followed
MaxInitialEnergy == 4

MaxFood == 3

MaxAge == 4

\* the largest target_size a _grow_cluster call is followed with
MaxTargetSize == 3

(***************************************************************************)
(* State                                                                   *)
(***************************************************************************)
VARIABLES
  REGROWTH_ENABLED,  \* config.py REGROWTH_ENABLED, fixed for a run
  MOVES_PER_DAY,     \* config.py MOVES_PER_DAY, fixed for a run
  INITIAL_CALORIES,  \* config.py INITIAL_CALORIES, fixed for a run
  INITIAL_SLEEP,     \* config.py INITIAL_SLEEP, fixed for a run
  grid,              \* World.grid: position -> Cell
  ret,               \* the last call made on the world/cells and what it returned
  sinceConsumed,     \* history: per cell, update() calls made on it since its last
                     \* consumption while it was regrowing
  drawnAt,           \* history: per cell, the call that drew its regrowth_time
  agents,            \* Game.agents, or the agent list a caller holds
  call,              \* the last Agent.update call: its arguments and how it ended
  time,              \* the TimeSystem object
  changed,           \* what the last TimeSystem.update call returned
  game,              \* the Game object: state, turns, active_agent_index, crashed
  nightly,           \* history: per agent, its nightly consumptions and wake-ups
                     \* since night last fell
  before,            \* history: Game.agents as the last _check_time_transition
                     \* call of the game found them, <<>> before the first
  clusters,          \* World.clusters: the records _generate_clusters appended
                     \* (followed while the world is constructed; nothing reads
                     \* them afterwards)
  lifecycle,         \* an Agent object of src/Agent/agent.py (the lifecycle agent)
  lifecycleCall,     \* history: the last call made on the lifecycle agent and
                     \* what it returned, and the energy the agent was created
                     \* with for as long as it has neither eaten nor reproduced
  growth,            \* a running World._grow_cluster call: its arguments and
                     \* draws, cluster_cells, cells_to_process, and as history how
                     \* often each cell has entered cells_to_process and how many
                     \* passes the while loop has made
  nearest            \* the last World.get_nearest_resource call: its arguments
                     \* and what it returned

configVars == <<REGROWTH_ENABLED, MOVES_PER_DAY, INITIAL_CALORIES, INITIAL_SLEEP>>

worldHistory == <<ret, sinceConsumed, drawnAt>>

lifecycleVars == <<lifecycle, lifecycleCall>>

vars == <<REGROWTH_ENABLED, MOVES_PER_DAY, INITIAL_CALORIES, INITIAL_SLEEP, grid,
          ret, sinceConsumed, drawnAt, agents, call, time, changed, game, nightly,
          before, clusters, lifecycle, lifecycleCall, growth, nearest>>

(***************************************************************************)
(* Cell (models/cell.py)                                                   *)
(***************************************************************************)
STATE_FULL == "FULL"

STATE_CONSUMED == "CONSUMED"

STATE_REGROWING == "REGROWING"

RegrowthTimes == MIN_REGROWTH_TIME..MAX_REGROWTH_TIME

\* RESOURCE_VALUE[resource_type] when the type is a key, else the default
ResourceValue(resource_type) ==
  IF resource_type = "food" THEN RESOURCE_VALUE_FOOD
  ELSE IF resource_type = "water" THEN RESOURCE_VALUE_WATER
  ELSE RESOURCE_VALUE_DEFAULT

\* Cell.__init__: _initialize_resources, _initialize_regrowth (regrowth_time is
\* the random draw), cluster_id = None
NewCell(has_resources, resource_type, regrowth_time) ==
  [ resource_type    |-> resource_type,
    resources        |-> IF has_resources THEN ResourceValue(resource_type) ELSE 0,
    state            |-> IF has_resources THEN STATE_FULL ELSE STATE_CONSUMED,
    regrowth_time    |-> regrowth_time,
    regrowth_counter |-> 0,
    cluster_id       |-> NoCluster ]

\* Cell.has_resources
CellHasResources(c) == c.state = STATE_FULL

\* a consumption that starts a regrowth whatever REGROWTH_ENABLED says
PerformConsumptionAlwaysRegrows(c, regrowth) ==
  [ cell  |-> [c EXCEPT !.resources = 0, !.state = STATE_REGROWING,
                        !.regrowth_counter = 0],
    value |-> <<c.resources, c.resource_type>> ]

\* Cell._perform_consumption: the cell after it, and the pair returned
PerformConsumption(c, regrowth) ==
  [ cell  |-> IF regrowth
              THEN [c EXCEPT !.resources = 0, !.state = STATE_REGROWING,
                             !.regrowth_counter = 0]
              ELSE [c EXCEPT !.resources = 0, !.state = STATE_CONSUMED],
    value |-> <<c.resources, c.resource_type>> ]

\* a consume without the STATE_FULL guard
CellConsumeUnguarded(c, regrowth) == PerformConsumption(c, regrowth)

\* a consume that re-draws the regrowth time (here: the other end of the range)
CellConsumeRedraws(c, regrowth) ==
  IF c.state = STATE_FULL
  THEN LET r == PerformConsumption(c, regrowth)
       IN  [r EXCEPT !.cell.regrowth_time =
                        MIN_REGROWTH_TIME + MAX_REGROWTH_TIME - c.regrowth_time]
  ELSE [cell |-> c, value |-> <<0, NoType>>]

\* Cell.consume
CellConsume(c, regrowth) ==
  IF c.state = STATE_FULL
  THEN PerformConsumption(c, regrowth)
  ELSE [cell |-> c, value |-> <<0, NoType>>]

\* a regrowth that completes without restoring the resources
CompleteRegrowthEmpty(c, new_time) ==
  [c EXCEPT !.state = STATE_FULL, !.regrowth_counter = 0, !.regrowth_time = new_time]

\* Cell._complete_regrowth; new_time is the random draw of the next regrowth_time
CompleteRegrowth(c, new_time) ==
  [c EXCEPT !.state = STATE_FULL,
            !.resources = ResourceValue(c.resource_type),
            !.regrowth_counter = 0,
            !.regrowth_time = new_time]

\* a regrowth that completes one update late
ProgressRegrowthLate(c, new_time) ==
  LET c1 == [c EXCEPT !.regrowth_counter = c.regrowth_counter + 1]
  IN  IF c1.regrowth_counter > c1.regrowth_time
      THEN CompleteRegrowth(c1, new_time)
      ELSE c1

\* Cell._progress_regrowth
ProgressRegrowth(c, new_time) ==
  LET c1 == [c EXCEPT !.regrowth_counter = c.regrowth_counter + 1]
  IN  IF c1.regrowth_counter >= c1.regrowth_time
      THEN CompleteRegrowth(c1, new_time)
      ELSE c1

\* an update that regrows every cell that is not full, consumed ones included
CellUpdateRegrowsConsumed(c, regrowth, new_time) ==
  IF ~regrowth THEN c
  ELSE IF c.state # STATE_FULL THEN ProgressRegrowth(c, new_time)
  ELSE c

\* Cell.update
CellUpdate(c, regrowth, new_time) ==
  IF ~regrowth THEN c
  ELSE IF c.state = STATE_REGROWING THEN ProgressRegrowth(c, new_time)
  ELSE c

\* whether this update() call completes the cell's regrowth (and so draws)
Completes(c, regrowth) ==
  regrowth /\ c.state = STATE_REGROWING /\ c.regrowth_counter + 1 >= c.regrowth_time

(***************************************************************************)
(* World (models/world.py)                                                 *)
(***************************************************************************)
Coords == 0..(WORLD_SIZE - 1)

Pos == Coords \X Coords

\* World.is_valid_position
IsValidPosition(x, y) == 0 <= x /\ x < WORLD_SIZE /\ 0 <= y /\ y < WORLD_SIZE

\* World.has_resources(x, y) with no resource_type
HasResources(g, x, y) == IsValidPosition(x, y) /\ CellHasResources(g[<<x, y>>])

\* World.consume_resources: the grid after it, and the pair returned
ConsumeResources(g, regrowth, x, y) ==
  IF IsValidPosition(x, y)
  THEN LET r == CellConsume(g[<<x, y>>], regrowth)
       IN  [grid |-> [g EXCEPT ![<<x, y>>] = r.cell], value |-> r.value]
  ELSE [grid |-> g, value |-> <<0, NoType>>]

\* World.update: every cell's update(); draws holds the random regrowth times
\* of the cells that complete their regrowth in this call
WorldUpdateGrid(g, regrowth, draws) ==
  [p \in Pos |-> CellUpdate(g[p], regrowth,
                            IF p \in DOMAIN draws THEN draws[p] ELSE g[p].regrowth_time)]

CompletingCells(g, regrowth) == {p \in Pos : Completes(g[p], regrowth)}

\* World.has_resources(x, y, resource_type); NoType stands for None
HasResourcesOf(g, x, y, resource_type) ==
  IF ~IsValidPosition(x, y) THEN FALSE
  ELSE IF resource_type # NoType
       THEN CellHasResources(g[<<x, y>>]) /\ g[<<x, y>>].resource_type = resource_type
       ELSE CellHasResources(g[<<x, y>>])

\* the while loop of World.get_nearest_resource: queue holds the triples
\* (x, y, distance) still to visit, visited the positions ever queued; the
\* neighbours are queued in the order of the two for loops.  A max_distance
\* of None or 0 is false in `if max_distance and ...` and limits nothing
RECURSIVE SearchFrom(_, _, _, _, _)
SearchFrom(g, queue, visited, resource_type, max_distance) ==
  IF queue = <<>> THEN [distance |-> 0 - 1, cell |-> <<0 - 1, 0 - 1>>]
  ELSE LET cx == Head(queue)[1]
           cy == Head(queue)[2]
           distance == Head(queue)[3]
           offsets == << <<0 - 1, 0 - 1>>, <<0 - 1, 0>>, <<0 - 1, 1>>, <<0, 0 - 1>>,
                         <<0, 1>>, <<1, 0 - 1>>, <<1, 0>>, <<1, 1>> >>
           neighbors == SelectSeq([i \in 1..8 |-> <<cx + offsets[i][1], cy + offsets[i][2]>>],
                                  LAMBDA n : IsValidPosition(n[1], n[2]) /\ n \notin visited)
       IN  IF max_distance # 0 - 1 /\ max_distance # 0 /\ distance > max_distance
           THEN [distance |-> 0 - 1, cell |-> <<0 - 1, 0 - 1>>]
           ELSE IF HasResourcesOf(g, cx, cy, resource_type)
           THEN [distance |-> distance, cell |-> <<cx, cy>>]
           ELSE SearchFrom(g,
                           Tail(queue) \o [i \in 1..Len(neighbors) |->
                                             <<neighbors[i][1], neighbors[i][2], distance + 1>>],
                           visited \cup {neighbors[i] : i \in 1..Len(neighbors)},
                           resource_type, max_distance)

\* World.get_nearest_resource: the pair returned; distance -1 and cell
\* (-1, -1) stand for (None, None), max_distance -1 for None
GetNearestResource(g, x, y, resource_type, max_distance) ==
  SearchFrom(g, <<<<x, y, 0>>>>, {<<x, y>>}, resource_type, max_distance)

(***************************************************************************)
(* World construction (World.__init__): the grids it can leave             *)
(***************************************************************************)
ClusterCount == FOOD_CLUSTER_COUNT + WATER_CLUSTER_COUNT

\* _generate_resource_clusters: food clusters get ids 0..FOOD_CLUSTER_COUNT-1,
\* water clusters the ids after them
ClusterType(id) == IF id < FOOD_CLUSTER_COUNT THEN "food" ELSE "water"

ClusterSizeMax(id) ==
  IF id < FOOD_CLUSTER_COUNT THEN FOOD_CLUSTER_SIZE_MAX ELSE WATER_CLUSTER_SIZE_MAX

Abs(n) == IF n < 0 THEN 0 - n ELSE n

\* _get_valid_neighbors: the 8-connected neighbourhood
Adjacent(p, q) == p # q /\ Abs(p[1] - q[1]) <= 1 /\ Abs(p[2] - q[2]) <= 1

\* the member sets reachable by admitting up to n more neighbours of members
RECURSIVE ReachWithin(_, _, _)
ReachWithin(g, Ss, n) ==
  IF n = 0 THEN Ss
  ELSE ReachWithin(g,
         Ss \cup { S \cup {q} : <<S, q>> \in
                     {sq \in Ss \X Pos :
                        /\ sq[2] \notin sq[1]
                        /\ ~CellHasResources(g[sq[2]])
                        /\ \E p \in sq[1] : Adjacent(p, sq[2])} },
         n - 1)

\* _grow_cluster: the member sets a breadth-first spread from center can
\* produce.  Every admission is a random draw that can go either way (the
\* probability is strictly between 0 and 1), growth stops at the target size,
\* and cells that already hold resources are skipped; the center itself is
\* overwritten unconditionally.
GrowOutcomes(g, center, id) == ReachWithin(g, {{center}}, ClusterSizeMax(id) - 1)

\* the cells of one grown cluster written into the grid; times are the
\* regrowth_time draws of the new Cell objects
PlaceCluster(g, id, S, times) ==
  [p \in Pos |->
     IF p \in S
     THEN [NewCell(TRUE, ClusterType(id), times[p]) EXCEPT !.cluster_id = id]
     ELSE g[p]]

ResourceCells(g) == {p \in Pos : g[p].resource_type # NoType}

\* _generate_clusters for the clusters id, id+1, ...: every grid the random
\* centers, sizes and spreads can leave with at most cap resource cells
\* (placing a cluster never lowers the number of resource cells)
RECURSIVE GenerateFrom(_, _, _)
GenerateFrom(g, id, cap) ==
  IF id >= ClusterCount THEN {g}
  ELSE UNION { GenerateFrom(PlaceCluster(g, id, S, times), id + 1, cap) :
                 <<S, times>> \in UNION { { <<S, times>> : times \in [S -> RegrowthTimes] } :
                     S \in {T \in UNION { GrowOutcomes(g, c, id) : c \in Pos } :
                              Cardinality(ResourceCells(g) \cup T) <= cap} } }

ClusterSizeMin(id) ==
  IF id < FOOD_CLUSTER_COUNT THEN FOOD_CLUSTER_SIZE_MIN ELSE WATER_CLUSTER_SIZE_MIN

\* the offsets in the order of the two loops of _get_valid_neighbors
NeighborOffsets ==
  << <<0 - 1, 0 - 1>>, <<0 - 1, 0>>, <<0 - 1, 1>>, <<0, 0 - 1>>, <<0, 1>>,
     <<1, 0 - 1>>, <<1, 0>>, <<1, 1>> >>

\* World._get_valid_neighbors
GetValidNeighbors(x, y) ==
  SelectSeq([i \in 1..Len(NeighborOffsets) |->
               <<x + NeighborOffsets[i][1], y + NeighborOffsets[i][2]>>],
            LAMBDA n : IsValidPosition(n[1], n[2]))

\* the river directions of _grow_cluster, and the value that stands for a
\* cluster that is not a river
RiverDirections == {<<0, 1>>, <<1, 0>>, <<1, 1>>, <<0 - 1, 1>>}

NoRiver == <<0, 0>>

\* World._river_priority, doubled: 2.0, 1.0 and 0.5 are 4, 2 and 1 here
RiverPriority(pos, x, y, river_dir, perp_dir) ==
  LET dx == pos[1] - x
      dy == pos[2] - y
      river_alignment == dx * river_dir[1] + dy * river_dir[2]
      perp_alignment == dx * perp_dir[1] + dy * perp_dir[2]
  IN  IF river_alignment > 0 THEN 4
      ELSE IF perp_alignment # 0 THEN 2
      ELSE 1

\* the neighbours of (x, y) in the order _grow_cluster visits them: for a
\* river, neighbors.sort(key=_river_priority), ascending and stable
NeighborsInOrder(x, y, river) ==
  LET neighbors == GetValidNeighbors(x, y)
      perpendicular == <<river[2], 0 - river[1]>>
      With(k) == SelectSeq(neighbors,
                           LAMBDA n : RiverPriority(n, x, y, river, perpendicular) = k)
  IN  IF river = NoRiver THEN neighbors
      ELSE With(1) \o With(2) \o With(4)

\* a cell _grow_cluster writes: Cell(True, resource_type) with its cluster_id
ClusterCell(id, regrowth_time) ==
  [NewCell(TRUE, ClusterType(id), regrowth_time) EXCEPT !.cluster_id = id]

\* the for loop of _grow_cluster without its break
RECURSIVE SpreadToUnbounded(_, _, _, _, _, _)
SpreadToUnbounded(st, neighbors, i, target_size, id, regrowth_time) ==
  IF i > Len(neighbors) THEN {st}
  ELSE LET n == neighbors[i]
           skipped == SpreadToUnbounded(st, neighbors, i + 1, target_size, id, regrowth_time)
       IN  IF CellHasResources(st.grid[n]) \/ (\E k \in 1..Len(st.cells) : st.cells[k] = n)
           THEN skipped
           ELSE skipped \cup
                SpreadToUnbounded([grid  |-> [st.grid EXCEPT ![n] = ClusterCell(id, regrowth_time)],
                                   cells |-> Append(st.cells, n),
                                   queue |-> Append(st.queue, n)],
                                  neighbors, i + 1, target_size, id, regrowth_time)

\* the for loop of _grow_cluster over the neighbours from the i-th on: a
\* neighbour that has resources or is a member is skipped, every other one
\* is admitted or not by a random draw (the probability is strictly between 0
\* and 1), and the loop breaks once the target size is reached
RECURSIVE SpreadTo(_, _, _, _, _, _)
SpreadTo(st, neighbors, i, target_size, id, regrowth_time) ==
  IF i > Len(neighbors) \/ Len(st.cells) >= target_size THEN {st}
  ELSE LET n == neighbors[i]
           skipped == SpreadTo(st, neighbors, i + 1, target_size, id, regrowth_time)
       IN  IF CellHasResources(st.grid[n]) \/ (\E k \in 1..Len(st.cells) : st.cells[k] = n)
           THEN skipped
           ELSE skipped \cup
                SpreadTo([grid  |-> [st.grid EXCEPT ![n] = ClusterCell(id, regrowth_time)],
                          cells |-> Append(st.cells, n),
                          queue |-> Append(st.queue, n)],
                         neighbors, i + 1, target_size, id, regrowth_time)

\* the while loop of _grow_cluster: st holds the grid, cluster_cells and
\* cells_to_process
RECURSIVE GrowFrom(_, _, _, _, _)
GrowFrom(st, target_size, id, river, regrowth_time) ==
  IF st.queue = <<>> \/ Len(st.cells) >= target_size THEN {st}
  ELSE LET current == Head(st.queue)
       IN  UNION { GrowFrom(s, target_size, id, river, regrowth_time) :
                     s \in SpreadTo([st EXCEPT !.queue = Tail(@)],
                                    NeighborsInOrder(current[1], current[2], river),
                                    1, target_size, id, regrowth_time) }

\* World._grow_cluster: the grids and member lists it can leave.  river is
\* the direction drawn for a river, or NoRiver; regrowth_time is the draw of
\* the new cells (one value for the cells of a cluster here)
GrowCluster(g, center, target_size, id, river, regrowth_time) ==
  GrowFrom([grid  |-> [g EXCEPT ![center] = ClusterCell(id, regrowth_time)],
            cells |-> <<center>>,
            queue |-> <<center>>],
           target_size, id, river, regrowth_time)

\* one pass of the while loop of _grow_cluster that leaves the head of
\* cells_to_process where it is
GrowIterationKeepsHead(st, target_size, id, river, regrowth_time) ==
  LET current == Head(st.queue)
  IN  SpreadTo(st, NeighborsInOrder(current[1], current[2], river),
               1, target_size, id, regrowth_time)

\* one pass of the while loop of _grow_cluster: pop(0), then the for loop
\* over the neighbours of the cell popped
GrowIteration(st, target_size, id, river, regrowth_time) ==
  LET current == Head(st.queue)
  IN  SpreadTo([st EXCEPT !.queue = Tail(@)],
               NeighborsInOrder(current[1], current[2], river),
               1, target_size, id, regrowth_time)

\* the record _generate_clusters appends to World.clusters; target_size is
\* not stored by the code and is kept here as history
ClusterRecord(id, center, target_size, cluster_cells) ==
  [id |-> id, type |-> ClusterType(id), center |-> center,
   size |-> Len(cluster_cells), cells |-> cluster_cells, target_size |-> target_size]

\* _create_empty_grid; t is the regrowth_time drawn for the cells (one draw
\* shared by all cells here: an empty cell's regrowth_time is never read)
EmptyGrid(t) == [p \in Pos |-> NewCell(FALSE, NoType, t)]

(***************************************************************************)
(* Agent (models/agent.py)                                                 *)
(***************************************************************************)
STATE_ACTIVE == 0

STATE_RETURNING == 1

STATE_SLEEPING == 2

STATE_DEAD == 3

\* Agent.__init__; max_calories, max_sleep_energy and home_x, home_y are never
\* assigned again: they are MAX_CALORIES, MAX_SLEEP and HOME_BASE_POSITION
NewAgent(x, y, agent_id, initial_calories, initial_sleep) ==
  [x |-> x, y |-> y, last_dx |-> 0, last_dy |-> 0, agent_id |-> agent_id,
   calories |-> initial_calories, collected_calories |-> 0,
   sleep_energy |-> initial_sleep,
   alive |-> TRUE, is_sleeping |-> FALSE, state |-> STATE_ACTIVE,
   days_survived |-> 0, moves_today |-> 0, total_distance_traveled |-> 0,
   returning_home |-> FALSE, path_to_home |-> <<>>]

\* what a call on an agent leaves: the agent, the world's grid, the value
\* returned, and whether the call ended by raising instead of returning
Outcome(a, g, result, raised) ==
  [agent |-> a, grid |-> g, result |-> result, raised |-> raised]

\* Agent.get_distance_to_home
GetDistanceToHome(a) ==
  Abs(a.x - HOME_BASE_POSITION[1]) + Abs(a.y - HOME_BASE_POSITION[2])

\* Agent.is_at_home
IsAtHome(a) == a.x = HOME_BASE_POSITION[1] /\ a.y = HOME_BASE_POSITION[2]

\* the positions visited by n unit steps from (x, y) in direction (sx, sy)
RECURSIVE Walk(_, _, _, _, _)
Walk(x, y, sx, sy, n) ==
  IF n = 0 THEN <<>>
  ELSE <<<<x + sx, y + sy>>>> \o Walk(x + sx, y + sy, sx, sy, n - 1)

\* a path home that takes the y steps first
CalculatePathToHomeYFirst(a) ==
  LET dx == HOME_BASE_POSITION[1] - a.x
      dy == HOME_BASE_POSITION[2] - a.y
      direction_x == IF dx > 0 THEN 1 ELSE 0 - 1
      direction_y == IF dy > 0 THEN 1 ELSE 0 - 1
  IN  Walk(a.x, a.y, 0, direction_y, Abs(dy))
        \o Walk(a.x, a.y + dy, direction_x, 0, Abs(dx))

\* Agent._calculate_path_to_home: the x steps first, then the y steps
CalculatePathToHome(a) ==
  LET dx == HOME_BASE_POSITION[1] - a.x
      dy == HOME_BASE_POSITION[2] - a.y
      direction_x == IF dx > 0 THEN 1 ELSE 0 - 1
      direction_y == IF dy > 0 THEN 1 ELSE 0 - 1
  IN  Walk(a.x, a.y, direction_x, 0, Abs(dx))
        \o Walk(a.x + dx, a.y, 0, direction_y, Abs(dy))

\* Agent._die
Die(a) == [a EXCEPT !.alive = FALSE, !.state = STATE_DEAD]

\* self.collected_calories += calories_gained (agent.py:216 and agent.py:262):
\* calories_gained is the (value, resource_type) pair that
\* World.consume_resources returns, and adding a tuple to an int raises
\* TypeError; collected_calories keeps its value
AddCollected(collected_calories, calories_gained) ==
  [raised |-> TRUE, value |-> collected_calories]

\* Agent._move_towards_home
MoveTowardsHome(a, g, regrowth) ==
  IF a.path_to_home = <<>>
  THEN Outcome([a EXCEPT !.returning_home = FALSE], g, FALSE, FALSE)
  ELSE
    LET next == Head(a.path_to_home) IN
    IF IsValidPosition(next[1], next[2])
    THEN
      LET a1 == [a EXCEPT !.last_dx = next[1] - a.x, !.last_dy = next[2] - a.y,
                          !.x = next[1], !.y = next[2],
                          !.path_to_home = Tail(@),
                          !.sleep_energy = @ - 1]
      IN  IF a1.sleep_energy <= 0
          THEN Outcome(Die(a1), g, FALSE, FALSE)
          ELSE
            LET r == ConsumeResources(g, regrowth, a1.x, a1.y)
                s == AddCollected(a1.collected_calories, r.value)
                a2 == [a1 EXCEPT !.collected_calories = s.value]
            IN  IF s.raised THEN Outcome(a1, r.grid, FALSE, TRUE)
                ELSE IF IsAtHome(a2)
                THEN Outcome([a2 EXCEPT !.returning_home = FALSE,
                                        !.path_to_home = <<>>], r.grid, TRUE, FALSE)
                ELSE Outcome(a2, r.grid, TRUE, FALSE)
    ELSE Outcome([a EXCEPT !.path_to_home = CalculatePathToHome(a)], g, FALSE, FALSE)

\* Agent._perform_move
PerformMove(a, new_x, new_y, g, regrowth) ==
  LET a1 == [a EXCEPT !.x = new_x, !.y = new_y]
      r  == ConsumeResources(g, regrowth, a1.x, a1.y)
      s  == AddCollected(a1.collected_calories, r.value)
      a2 == [a1 EXCEPT !.collected_calories = s.value, !.sleep_energy = @ - 1]
  IN  IF s.raised THEN Outcome(a1, r.grid, FALSE, TRUE)
      ELSE IF a2.sleep_energy <= 0 THEN Outcome(Die(a2), r.grid, FALSE, FALSE)
      ELSE Outcome(a2, r.grid, FALSE, FALSE)

\* Agent._scan_for_resources: the offsets (dx, dy) within the sensing range,
\* other than (0, 0), whose cell has resources
ScanForResources(a, g) ==
  {d \in (0 - RESOURCE_SENSING_RANGE..RESOURCE_SENSING_RANGE)
           \X (0 - RESOURCE_SENSING_RANGE..RESOURCE_SENSING_RANGE) :
     /\ d # <<0, 0>>
     /\ HasResources(g, a.x + d[1], a.y + d[2])}

\* max(-1, min(1, v))
Clamp(v) == IF v < 0 - 1 THEN 0 - 1 ELSE IF v > 1 THEN 1 ELSE v

\* the last entry after the sort: a sensed offset of the lowest weight
LowestWeighted(resource_directions) ==
  CHOOSE d \in resource_directions : \A e \in resource_directions :
    Abs(d[1]) + Abs(d[2]) >= Abs(e[1]) + Abs(e[2])

\* the first entry after resource_directions.sort(key=weight, reverse=True):
\* weight is 1 / max(1, |dx| + |dy|), the sort is stable, and the scan
\* appended the offsets by ascending dx, then ascending dy
HighestWeighted(resource_directions) ==
  CHOOSE d \in resource_directions : \A e \in resource_directions \ {d} :
    \/ Abs(d[1]) + Abs(d[2]) < Abs(e[1]) + Abs(e[2])
    \/ /\ Abs(d[1]) + Abs(d[2]) = Abs(e[1]) + Abs(e[2])
       /\ (d[1] < e[1] \/ (d[1] = e[1] /\ d[2] < e[2]))

\* a position Agent.calculate_movement returns, and the agent with the
\* last_dx, last_dy it assigned
Movement(a, dx, dy) ==
  [new_x |-> a.x + dx, new_y |-> a.y + dy,
   agent |-> [a EXCEPT !.last_dx = dx, !.last_dy = dy]]

\* Agent._choose_resource_direction: the highest-weighted offset when
\* random.random() < OPTIMAL_CHOICE_PROBABILITY, else random.choice of the list
ChooseResourceDirection(a, resource_directions) ==
  { Movement(a, Clamp(t[1]), Clamp(t[2])) :
      t \in {HighestWeighted(resource_directions)} \cup resource_directions }

\* Agent._handle_wall_collisions
HandleWallCollisions(a) ==
  LET dx == IF a.x = 0 THEN (IF a.last_dx < 0 THEN 0 - a.last_dx ELSE a.last_dx)
            ELSE IF a.x = WORLD_SIZE - 1
                 THEN (IF a.last_dx > 0 THEN 0 - a.last_dx ELSE a.last_dx)
                 ELSE a.last_dx
      dy == IF a.y = 0 THEN (IF a.last_dy < 0 THEN 0 - a.last_dy ELSE a.last_dy)
            ELSE IF a.y = WORLD_SIZE - 1
                 THEN (IF a.last_dy > 0 THEN 0 - a.last_dy ELSE a.last_dy)
                 ELSE a.last_dy
  IN  [a EXCEPT !.last_dx = dx, !.last_dy = dy]

\* round(n / 2) for n in -2..2: Python rounds a half to the even integer
RoundHalf(n) == IF n >= 2 THEN 1 ELSE IF n <= 0 - 2 THEN 0 - 1 ELSE 0

\* Agent._random_movement
RandomMovement(a) ==
  LET a1 == HandleWallCollisions(a)
      Steps == {0 - 1, 0, 1}
      averaged == { <<RoundHalf(a1.last_dx + random_dx), RoundHalf(a1.last_dy + random_dy)>> :
                      <<random_dx, random_dy>> \in Steps \X Steps }
      redrawn == (Steps \X Steps) \ {<<0, 0>>}
      directions == (averaged \ {<<0, 0>>})
                      \cup (IF <<0, 0>> \in averaged THEN redrawn ELSE {})
  IN  { Movement(a1, d[1], d[2]) : d \in directions }

\* Agent.calculate_movement
CalculateMovement(a, g) ==
  LET resource_directions == ScanForResources(a, g)
  IN  IF resource_directions # {}
      THEN ChooseResourceDirection(a, resource_directions)
      ELSE RandomMovement(a)

\* Agent.move without the test of World.is_valid_position
MoveToUnchecked(m, g, regrowth) ==
  LET o == PerformMove(m.agent, m.new_x, m.new_y, g, regrowth)
      distance == Abs(m.new_x - o.agent.x) + Abs(m.new_y - o.agent.y)
  IN  IF o.raised THEN o
      ELSE Outcome([o.agent EXCEPT !.total_distance_traveled = @ + distance],
                   o.grid, TRUE, FALSE)

\* Agent.move once calculate_movement has returned m: the distance is
\* computed after _perform_move has assigned the new position
MoveTo(m, g, regrowth) ==
  IF IsValidPosition(m.new_x, m.new_y)
  THEN LET o == PerformMove(m.agent, m.new_x, m.new_y, g, regrowth)
           distance == Abs(m.new_x - o.agent.x) + Abs(m.new_y - o.agent.y)
       IN  IF o.raised THEN o
           ELSE Outcome([o.agent EXCEPT !.total_distance_traveled = @ + distance],
                        o.grid, TRUE, FALSE)
  ELSE Outcome(m.agent, g, FALSE, FALSE)

\* Agent.move: the outcomes the draws of calculate_movement allow
Move(a, g, regrowth) == { MoveTo(m, g, regrowth) : m \in CalculateMovement(a, g) }

\* Agent._update_daytime that starts the return only once the distance
\* exceeds the moves that remain
UpdateDaytimeLate(a, g, regrowth, quota) ==
  LET distance_to_home == GetDistanceToHome(a)
      moves_remaining == quota - a.moves_today
      a1 == IF ~a.returning_home /\ distance_to_home > moves_remaining
            THEN [a EXCEPT !.returning_home = TRUE, !.state = STATE_RETURNING,
                           !.path_to_home = CalculatePathToHome(a)]
            ELSE a
      moved == IF a1.returning_home THEN {MoveTowardsHome(a1, g, regrowth)}
               ELSE IF a1.moves_today < quota THEN Move(a1, g, regrowth)
               ELSE {Outcome(a1, g, FALSE, FALSE)}
  IN  { IF ~o.raised /\ o.result
        THEN [o EXCEPT !.agent.moves_today = @ + 1]
        ELSE o : o \in moved }

\* Agent._update_daytime
UpdateDaytime(a, g, regrowth, quota) ==
  LET distance_to_home == GetDistanceToHome(a)
      moves_remaining == quota - a.moves_today
      a1 == IF ~a.returning_home /\ distance_to_home >= moves_remaining
            THEN [a EXCEPT !.returning_home = TRUE, !.state = STATE_RETURNING,
                           !.path_to_home = CalculatePathToHome(a)]
            ELSE a
      moved == IF a1.returning_home THEN {MoveTowardsHome(a1, g, regrowth)}
               ELSE IF a1.moves_today < quota THEN Move(a1, g, regrowth)
               ELSE {Outcome(a1, g, FALSE, FALSE)}
  IN  { IF ~o.raised /\ o.result
        THEN [o EXCEPT !.agent.moves_today = @ + 1]
        ELSE o : o \in moved }

\* Agent._update_daytime, the test of line 103: the agent starts to return
StartsReturning(a, quota) ==
  ~a.returning_home /\ GetDistanceToHome(a) >= quota - a.moves_today

\* Agent._update_daytime, the branch taken: a daytime update of a makes a
\* homing step (_move_towards_home), or a foraging move (move)
Homes(a, quota) == a.alive /\ (a.returning_home \/ StartsReturning(a, quota))

Forages(a, quota) == a.alive /\ ~Homes(a, quota) /\ a.moves_today < quota

\* Agent.consume_collected_calories without the cap at max_calories
ConsumeCollectedCaloriesUncapped(a) ==
  LET calories_to_eat == IF a.collected_calories < CALORIE_CONSUMPTION_PER_DAY
                         THEN a.collected_calories ELSE CALORIE_CONSUMPTION_PER_DAY
      a1 == [a EXCEPT !.calories = @ + calories_to_eat,
                      !.collected_calories = @ - calories_to_eat]
      deficit == CALORIE_CONSUMPTION_PER_DAY - calories_to_eat
      a2 == [a1 EXCEPT !.calories = @ - deficit]
  IN  IF calories_to_eat < CALORIE_CONSUMPTION_PER_DAY
      THEN (IF a2.calories <= 0 THEN Die(a2) ELSE a2)
      ELSE a1

\* Agent.consume_collected_calories
ConsumeCollectedCalories(a) ==
  LET calories_to_eat == IF a.collected_calories < CALORIE_CONSUMPTION_PER_DAY
                         THEN a.collected_calories ELSE CALORIE_CONSUMPTION_PER_DAY
      added == a.calories + calories_to_eat
      a1 == [a EXCEPT !.calories = IF added > MAX_CALORIES THEN MAX_CALORIES ELSE added,
                      !.collected_calories = @ - calories_to_eat]
      deficit == CALORIE_CONSUMPTION_PER_DAY - calories_to_eat
      a2 == [a1 EXCEPT !.calories = @ - deficit]
  IN  IF calories_to_eat < CALORIE_CONSUMPTION_PER_DAY
      THEN (IF a2.calories <= 0 THEN Die(a2) ELSE a2)
      ELSE a1

\* Agent.sleep without the cap
SleepUncapped(a) == [a EXCEPT !.sleep_energy = @ + SLEEP_ENERGY_GAIN]

\* Agent.sleep
Sleep(a) ==
  LET gained == a.sleep_energy + SLEEP_ENERGY_GAIN
  IN  [a EXCEPT !.sleep_energy = IF gained > MAX_SLEEP THEN MAX_SLEEP ELSE gained]

\* Agent._wake_up without the assignment to state
WakeUpKeepsState(a) ==
  [a EXCEPT !.is_sleeping = FALSE, !.moves_today = 0, !.days_survived = @ + 1]

\* Agent._wake_up
WakeUp(a) ==
  [a EXCEPT !.is_sleeping = FALSE, !.state = STATE_ACTIVE,
            !.moves_today = 0, !.days_survived = @ + 1]

\* Agent._update_nighttime with a first cycle that does not start the sleep
UpdateNighttimeEatsOnly(a) ==
  Outcome(ConsumeCollectedCalories([a EXCEPT !.returning_home = FALSE,
                                             !.path_to_home = <<>>]),
          <<>>, TRUE, FALSE)

\* Agent._update_nighttime (the grid is not passed to it)
UpdateNighttime(a) ==
  LET a1 == [a EXCEPT !.returning_home = FALSE, !.path_to_home = <<>>]
  IN  IF ~a1.is_sleeping
      THEN Outcome([ConsumeCollectedCalories(a1) EXCEPT !.is_sleeping = TRUE,
                                                        !.state = STATE_SLEEPING],
                   <<>>, TRUE, FALSE)
      ELSE LET a2 == Sleep(a1)
           IN  IF a2.sleep_energy >= MAX_SLEEP
               THEN Outcome(WakeUp(a2), <<>>, FALSE, FALSE)
               ELSE Outcome(a2, <<>>, TRUE, FALSE)

\* Agent.update without the test of alive
UpdateUnguarded(a, g, regrowth, quota, is_day) ==
  IF is_day THEN UpdateDaytime(a, g, regrowth, quota)
  ELSE {[UpdateNighttime(a) EXCEPT !.grid = g]}

\* Agent.update: the outcomes its random draws allow
Update(a, g, regrowth, quota, is_day) ==
  IF ~a.alive THEN {Outcome(a, g, FALSE, FALSE)}
  ELSE IF is_day THEN UpdateDaytime(a, g, regrowth, quota)
  ELSE {[UpdateNighttime(a) EXCEPT !.grid = g]}

(***************************************************************************)
(* TimeSystem (simulation/time_system.py)                                  *)
(***************************************************************************)
STATE_DAY == 0

STATE_NIGHT == 1

\* TimeSystem.__init__
NewTimeSystem ==
  [is_day |-> TRUE, current_state |-> STATE_DAY, day_count |-> 0, time_cycles |-> 0]

\* what TimeSystem.update leaves: the object and the value returned
Checked(t, time_changed) == [time |-> t, changed |-> time_changed]

\* TimeSystem._get_living_agents without the filter
GetAllAgents(as) == as

\* TimeSystem._get_living_agents
GetLivingAgents(as) == SelectSeq(as, LAMBDA a : a.alive)

\* TimeSystem._transition_to_night
TransitionToNight(t) ==
  [t EXCEPT !.is_day = FALSE, !.current_state = STATE_NIGHT, !.time_cycles = @ + 1]

\* a transition to day that does not count the day
TransitionToDayUncounted(t) ==
  [t EXCEPT !.is_day = TRUE, !.current_state = STATE_DAY, !.time_cycles = @ + 1]

\* TimeSystem._transition_to_day
TransitionToDay(t) ==
  [t EXCEPT !.is_day = TRUE, !.current_state = STATE_DAY,
            !.time_cycles = @ + 1, !.day_count = @ + 1]

\* TimeSystem._check_day_to_night_transition with any() in the place of all()
CheckDayToNightTransitionAny(t, living_agents, quota) ==
  IF \E i \in 1..Len(living_agents) : living_agents[i].moves_today >= quota
  THEN Checked(TransitionToNight(t), TRUE)
  ELSE Checked(t, FALSE)

\* TimeSystem._check_day_to_night_transition
CheckDayToNightTransition(t, living_agents, quota) ==
  LET all_agents_done ==
        \A i \in 1..Len(living_agents) : living_agents[i].moves_today >= quota
  IN  IF all_agents_done THEN Checked(TransitionToNight(t), TRUE)
      ELSE Checked(t, FALSE)

\* TimeSystem._check_night_to_day_transition
CheckNightToDayTransition(t, living_agents) ==
  LET all_agents_awake ==
        \A i \in 1..Len(living_agents) : ~living_agents[i].is_sleeping
  IN  IF all_agents_awake THEN Checked(TransitionToDay(t), TRUE)
      ELSE Checked(t, FALSE)

\* TimeSystem.update
TimeSystemUpdate(t, as, quota) ==
  LET living_agents == GetLivingAgents(as)
  IN  IF living_agents = <<>> THEN Checked(t, FALSE)
      ELSE IF t.is_day THEN CheckDayToNightTransition(t, living_agents, quota)
      ELSE CheckNightToDayTransition(t, living_agents)

(***************************************************************************)
(* Game (simulation/game.py)                                               *)
(***************************************************************************)
STATE_RUNNING == 0

STATE_PAUSED == 1

STATE_GAME_OVER == 2

\* Game._create_agents: count agents at the home base ("agent1", "agent2", ...
\* are the list positions here)
CreateAgents(count, initial_calories, initial_sleep) ==
  [i \in 1..count |->
     NewAgent(HOME_BASE_POSITION[1], HOME_BASE_POSITION[2], i,
              initial_calories, initial_sleep)]

\* Game.__init__ and Game._initialize_game, the fields of the Game object;
\* crashed: an exception has left Game.run (main() prints it and exits)
NewGame == [state |-> STATE_RUNNING, turns |-> 0, active_agent_index |-> 1,
            crashed |-> FALSE]

\* Game._update_agents from the i-th agent on: the agents and the grid every
\* sequence of random draws can leave.  An exception raised by an update
\* leaves the loop: the agents after it are not updated
RECURSIVE UpdateAgentsFrom(_, _, _, _, _, _)
UpdateAgentsFrom(as, g, i, regrowth, quota, is_day) ==
  IF i > Len(as) THEN {[agents |-> as, grid |-> g, raised |-> FALSE]}
  ELSE IF ~as[i].alive THEN UpdateAgentsFrom(as, g, i + 1, regrowth, quota, is_day)
  ELSE UNION {
         IF o.raised
         THEN {[agents |-> [as EXCEPT ![i] = o.agent], grid |-> o.grid, raised |-> TRUE]}
         ELSE UpdateAgentsFrom([as EXCEPT ![i] = o.agent], o.grid, i + 1,
                               regrowth, quota, is_day)
         : o \in Update(as[i], g, regrowth, quota, is_day) }

\* Game._check_agents_at_home without the test of alive
CheckAgentsAtHomeAll(as) ==
  [i \in 1..Len(as) |->
     IF ~IsAtHome(as[i])
     THEN [as[i] EXCEPT !.collected_calories = @ - (@ \div 2)]
     ELSE as[i]]

\* Game._check_agents_at_home
CheckAgentsAtHome(as) ==
  [i \in 1..Len(as) |->
     IF as[i].alive /\ ~IsAtHome(as[i])
     THEN [as[i] EXCEPT !.collected_calories = @ - (@ \div 2)]
     ELSE as[i]]

\* Game._ensure_active_agent_alive
EnsureActiveAgentAlive(active_agent_index, as) ==
  LET living_agents == {i \in 1..Len(as) : as[i].alive}
  IN  IF ~as[active_agent_index].alive /\ living_agents # {}
      THEN CHOOSE i \in living_agents : \A j \in living_agents : i <= j
      ELSE active_agent_index

\* Game._check_time_transition with the two branches exchanged
CheckTimeTransitionAtDaybreak(t, as, active_agent_index, quota) ==
  LET c == TimeSystemUpdate(t, as, quota)
  IN  [time |-> c.time, changed |-> c.changed,
       agents |-> IF c.changed /\ c.time.is_day THEN CheckAgentsAtHome(as) ELSE as,
       active_agent_index |-> IF c.changed /\ ~c.time.is_day
                              THEN EnsureActiveAgentAlive(active_agent_index, as)
                              ELSE active_agent_index]

\* Game._check_time_transition: the time system, the agents and the active
\* agent after it
CheckTimeTransition(t, as, active_agent_index, quota) ==
  LET c == TimeSystemUpdate(t, as, quota)
  IN  [time |-> c.time, changed |-> c.changed,
       agents |-> IF c.changed /\ ~c.time.is_day THEN CheckAgentsAtHome(as) ELSE as,
       active_agent_index |-> IF c.changed /\ c.time.is_day
                              THEN EnsureActiveAgentAlive(active_agent_index, as)
                              ELSE active_agent_index]

(***************************************************************************)
(* The lifecycle agent (src/Agent/agent.py)                                *)
(***************************************************************************)
\* Python's None where an agent is expected
NoAgent == [none |-> TRUE]

\* Agent.__init__
NewLifecycleAgent(agent_id, position, initial_energy) ==
  [id |-> agent_id, position |-> position, energy |-> initial_energy, age |-> 0,
   alive |-> TRUE, metabolism_rate |-> METABOLISM_RATE]

\* Agent.die
LifecycleDie(a) == [a EXCEPT !.alive = FALSE]

\* a tick that lets the agent live on with no energy left
LifecycleTickLenient(a) ==
  IF ~a.alive THEN a
  ELSE LET b == [a EXCEPT !.age = @ + 1, !.energy = @ - a.metabolism_rate]
       IN  IF b.energy < 0 THEN LifecycleDie(b) ELSE b

\* Agent.tick
LifecycleTick(a) ==
  IF ~a.alive THEN a
  ELSE LET b == [a EXCEPT !.age = @ + 1, !.energy = @ - a.metabolism_rate]
       IN  IF b.energy <= 0 THEN LifecycleDie(b) ELSE b

\* a can_reproduce that does not look at the age
LifecycleCanReproduceAtAnyAge(a) ==
  a.alive /\ a.energy >= REPRODUCTION_ENERGY_THRESHOLD

\* Agent.can_reproduce
LifecycleCanReproduce(a) ==
  a.alive /\ a.age >= MATURITY_AGE /\ a.energy >= REPRODUCTION_ENERGY_THRESHOLD

\* Agent.reproduce: the parent after it and the value returned
LifecycleReproduce(a, new_agent_id) ==
  IF ~LifecycleCanReproduce(a)
  THEN [agent |-> a, offspring |-> NoAgent]
  ELSE [agent     |-> [a EXCEPT !.energy = @ - REPRODUCTION_COST],
        offspring |-> NewLifecycleAgent(new_agent_id, a.position, OFFSPRING_ENERGY)]

\* an eat without the cap
LifecycleEatUncapped(a, food_energy) == [a EXCEPT !.energy = @ + food_energy]

\* Agent.eat
LifecycleEat(a, food_energy) ==
  LET fed == [a EXCEPT !.energy = @ + food_energy]
  IN  [fed EXCEPT !.energy = IF fed.energy < MAX_ENERGY THEN fed.energy ELSE MAX_ENERGY]

\* Agent.move
LifecycleMove(a, new_position) == [a EXCEPT !.position = new_position]

(***************************************************************************)
(* Values of the variables a specification does not use                    *)
(***************************************************************************)
\* on: what the position passed held before the call
NoCall == [op |-> "none", on |-> "none", amount |-> 0, type |-> NoType]

\* no Agent.update call yet; alive: whether the agent was alive when called,
\* result: the value returned (False when the call raised)
NoUpdate == [made |-> FALSE, is_day |-> TRUE, alive |-> TRUE, raised |-> FALSE,
             result |-> FALSE]

NoHistory == [p \in Pos |-> 0]

AtConstruction == [p \in Pos |-> "construction"]

\* the nightly consumptions and wake-ups of count agents, none yet
NoNightly(count) == [i \in 1..count |-> [eaten |-> 0, woken |-> 0]]

\* no lifecycle agent, and no call made on one
NoLifecycle == [id |-> 0, position |-> <<0, 0>>, energy |-> 0, age |-> 0, alive |-> FALSE,
                metabolism_rate |-> 0]

\* food_energy: the argument of the call when it is an eat(), else 0;
\* ticked_from: the energy the agent was created with, for as long as only
\* tick() and move() have been called on it; 0 afterwards
NoLifecycleCall == [op |-> "none", returned |-> NoAgent, food_energy |-> 0,
                    ticked_from |-> 0]

\* no _grow_cluster call running
NoGrowth == [center |-> <<0, 0>>, target_size |-> 0, id |-> 0, river |-> NoRiver,
             regrowth_time |-> MIN_REGROWTH_TIME, cells |-> <<>>, queue |-> <<>>,
             entered |-> NoHistory, passes |-> 0]

\* None as a distance or a distance limit, and None as a cell
NoDistance == 0 - 1

NoPosition == <<0 - 1, 0 - 1>>

\* no get_nearest_resource call yet
NoNearest == [made |-> FALSE, x |-> 0, y |-> 0, resource_type |-> NoType,
              max_distance |-> NoDistance, distance |-> NoDistance, cell |-> NoPosition]

\* a grid that no operation of the specification reads
NoWorld == [p \in Pos |-> NewCell(FALSE, NoType, MIN_REGROWTH_TIME)]

\* the configurations of the runs followed: no daily moves or the largest
\* quota, agents created nearly exhausted or fully rested, and every amount
\* of initial calories
Quotas == {0, MaxMovesPerDay}

InitialSleeps == {1, MAX_SLEEP}

InitialCalories == 1..MAX_CALORIES

(***************************************************************************)
(* SpecWorld: the world's operations as a client calls them                *)
(***************************************************************************)
\* positions a caller may pass: the grid, and positions beyond each edge
CallPositions ==
  Pos \cup {<<0 - 1, 0>>, <<0, 0 - 1>>, <<WORLD_SIZE, 0>>, <<0, WORLD_SIZE>>,
            <<WORLD_SIZE, WORLD_SIZE>>}

StateAt(g, x, y) == IF IsValidPosition(x, y) THEN g[<<x, y>>].state ELSE "outside"

\* the worlds a specification starts from: those construction leaves with
\* at most one resource cell per cluster
SmallWorlds == UNION { GenerateFrom(EmptyGrid(t), 0, ClusterCount) : t \in RegrowthTimes }

InitWorld ==
  /\ REGROWTH_ENABLED \in BOOLEAN
  /\ MOVES_PER_DAY = MaxMovesPerDay
  /\ INITIAL_CALORIES = MAX_CALORIES
  /\ INITIAL_SLEEP = MAX_SLEEP
  /\ grid \in SmallWorlds
  /\ ret = NoCall
  /\ sinceConsumed = NoHistory
  /\ drawnAt = AtConstruction
  /\ agents = <<>>
  /\ call = NoUpdate
  /\ time = NewTimeSystem
  /\ changed = FALSE
  /\ game = NewGame
  /\ nightly = <<>>
  /\ before = <<>>
  /\ clusters = <<>>
  /\ lifecycle = NoLifecycle
  /\ growth = NoGrowth
  /\ nearest = NoNearest
  /\ lifecycleCall = NoLifecycleCall

\* World.update()
WorldUpdate ==
  /\ \E draws \in [CompletingCells(grid, REGROWTH_ENABLED) -> RegrowthTimes] :
        grid' = WorldUpdateGrid(grid, REGROWTH_ENABLED, draws)
  /\ ret' = [NoCall EXCEPT !.op = "update"]
  /\ sinceConsumed' = [p \in Pos |->
        IF grid[p].state = STATE_REGROWING /\ sinceConsumed[p] <= MAX_REGROWTH_TIME
        THEN sinceConsumed[p] + 1 ELSE sinceConsumed[p]]
  /\ drawnAt' = [p \in Pos |->
        IF Completes(grid[p], REGROWTH_ENABLED) THEN "completion" ELSE drawnAt[p]]
  /\ UNCHANGED <<configVars, agents, call, time, changed, game, nightly, before, clusters, lifecycleVars, growth, nearest>>

\* World.consume_resources(x, y)
WorldConsume(x, y) ==
  LET r == ConsumeResources(grid, REGROWTH_ENABLED, x, y)
  IN  /\ grid' = r.grid
      /\ ret' = [op |-> "consume", on |-> StateAt(grid, x, y),
                 amount |-> r.value[1], type |-> r.value[2]]
      /\ sinceConsumed' = IF HasResources(grid, x, y)
                          THEN [sinceConsumed EXCEPT ![<<x, y>>] = 0]
                          ELSE sinceConsumed
      /\ UNCHANGED <<configVars, drawnAt, agents, call, time, changed, game, nightly,
                     before, clusters, lifecycleVars, growth, nearest>>

NextWorld ==
  \/ WorldUpdate
  \/ \E p \in CallPositions : WorldConsume(p[1], p[2])

SpecWorld == InitWorld /\ [][NextWorld]_vars

(***************************************************************************)
(* SpecNearest: nearest-resource queries on a world, made once the world   *)
(* has been consumed from                                                  *)
(***************************************************************************)
\* a constructed world whose cells all drew the shortest regrowth time
InitNearest ==
  /\ REGROWTH_ENABLED \in BOOLEAN
  /\ MOVES_PER_DAY = MaxMovesPerDay
  /\ INITIAL_CALORIES = MAX_CALORIES
  /\ INITIAL_SLEEP = MAX_SLEEP
  /\ grid \in {g \in SmallWorlds : \A p \in Pos : g[p].regrowth_time = MIN_REGROWTH_TIME}
  /\ ret = NoCall
  /\ sinceConsumed = NoHistory
  /\ drawnAt = AtConstruction
  /\ agents = <<>>
  /\ call = NoUpdate
  /\ time = NewTimeSystem
  /\ changed = FALSE
  /\ game = NewGame
  /\ nightly = <<>>
  /\ before = <<>>
  /\ clusters = <<>>
  /\ lifecycle = NoLifecycle
  /\ lifecycleCall = NoLifecycleCall
  /\ growth = NoGrowth
  /\ nearest = NoNearest

\* world.get_nearest_resource(x, y, resource_type, max_distance)
GetsNearest(x, y, resource_type, max_distance) ==
  /\ LET r == GetNearestResource(grid, x, y, resource_type, max_distance)
     IN  nearest' = [made |-> TRUE, x |-> x, y |-> y, resource_type |-> resource_type,
                     max_distance |-> max_distance, distance |-> r.distance,
                     cell |-> r.cell]
  /\ UNCHANGED <<configVars, grid, worldHistory, agents, call, time, changed, game,
                 nightly, before, clusters, lifecycleVars, growth>>

NextNearest ==
  \/ \E p \in Pos : ~nearest.made /\ WorldConsume(p[1], p[2])
  \/ \E p \in Pos \cup {<<0 - 1, 0>>} : \E resource_type \in RESOURCE_TYPES \cup {NoType} :
     \E max_distance \in {NoDistance, 0, 1} :
       GetsNearest(p[1], p[2], resource_type, max_distance)

SpecNearest == InitNearest /\ [][NextNearest]_vars

(***************************************************************************)
(* SpecBuild: the construction of a world, cluster by cluster              *)
(***************************************************************************)
InitBuild ==
  /\ REGROWTH_ENABLED = TRUE
  /\ MOVES_PER_DAY = MaxMovesPerDay
  /\ INITIAL_CALORIES = MAX_CALORIES
  /\ INITIAL_SLEEP = MAX_SLEEP
  /\ \E t \in RegrowthTimes : grid = EmptyGrid(t)
  /\ ret = NoCall
  /\ sinceConsumed = NoHistory
  /\ drawnAt = AtConstruction
  /\ agents = <<>>
  /\ call = NoUpdate
  /\ time = NewTimeSystem
  /\ changed = FALSE
  /\ game = NewGame
  /\ nightly = <<>>
  /\ before = <<>>
  /\ clusters = <<>>
  /\ lifecycle = NoLifecycle
  /\ growth = NoGrowth
  /\ nearest = NoNearest
  /\ lifecycleCall = NoLifecycleCall

\* one pass of the loop of _generate_clusters: the cluster whose id is the
\* number of clusters generated so far
GenerateCluster ==
  /\ Len(clusters) < ClusterCount
  /\ LET cluster_id == Len(clusters)
     IN  \E center \in Pos :
         \E target_size \in ClusterSizeMin(cluster_id)..ClusterSizeMax(cluster_id) :
         \E river \in (IF ClusterType(cluster_id) = "water"
                       THEN RiverDirections \cup {NoRiver} ELSE {NoRiver}) :
         \E regrowth_time \in RegrowthTimes :
         \E st \in GrowCluster(grid, center, target_size, cluster_id, river, regrowth_time) :
           /\ grid' = st.grid
           /\ clusters' = Append(clusters,
                                 ClusterRecord(cluster_id, center, target_size, st.cells))
  /\ UNCHANGED <<configVars, worldHistory, agents, call, time, changed, game, nightly,
                 before, lifecycleVars, growth, nearest>>

NextBuild == GenerateCluster

SpecBuild == InitBuild /\ [][NextBuild]_vars

(***************************************************************************)
(* SpecBuiltWorld: a constructed world with its cluster records, as a      *)
(* client updates it and consumes from it                                  *)
(***************************************************************************)
\* _generate_clusters for the clusters id, id+1, ... on the grid g with the
\* records recs appended so far: every world (grid and World.clusters) the
\* random centers, sizes, river directions and spreads can leave with at
\* most cap resource cells
RECURSIVE ConstructFrom(_, _, _, _)
ConstructFrom(g, recs, id, cap) ==
  IF id >= ClusterCount THEN {[grid |-> g, clusters |-> recs]}
  ELSE UNION { UNION { UNION { UNION { UNION {
         ConstructFrom(st.grid,
                       Append(recs, ClusterRecord(id, center, target_size, st.cells)),
                       id + 1, cap) :
           st \in {u \in GrowCluster(g, center, target_size, id, river, regrowth_time) :
                     Cardinality(ResourceCells(u.grid)) <= cap} } :
           regrowth_time \in RegrowthTimes } :
           river \in (IF ClusterType(id) = "water"
                      THEN RiverDirections \cup {NoRiver} ELSE {NoRiver}) } :
           target_size \in ClusterSizeMin(id)..ClusterSizeMax(id) } :
           center \in Pos }

\* World.__init__: the worlds followed are those construction leaves with at
\* most one resource cell per cluster, all of whose cells drew the shortest
\* regrowth time at construction (@@ only makes the empty grid a function
\* that is evaluated once)
InitBuiltWorld ==
  /\ REGROWTH_ENABLED \in BOOLEAN
  /\ MOVES_PER_DAY = MaxMovesPerDay
  /\ INITIAL_CALORIES = MAX_CALORIES
  /\ INITIAL_SLEEP = MAX_SLEEP
  /\ \E w \in ConstructFrom(EmptyGrid(MIN_REGROWTH_TIME) @@ <<>>, <<>>, 0, ClusterCount) :
       /\ \A p \in Pos : w.grid[p].regrowth_time = MIN_REGROWTH_TIME
       /\ grid = w.grid
       /\ clusters = w.clusters
  /\ lifecycle = NoLifecycle
  /\ growth = NoGrowth
  /\ nearest = NoNearest
  /\ lifecycleCall = NoLifecycleCall
  /\ ret = NoCall
  /\ sinceConsumed = NoHistory
  /\ drawnAt = AtConstruction
  /\ agents = <<>>
  /\ call = NoUpdate
  /\ time = NewTimeSystem
  /\ changed = FALSE
  /\ game = NewGame
  /\ nightly = <<>>
  /\ before = <<>>

NextBuiltWorld ==
  \/ WorldUpdate
  \/ \E p \in CallPositions : WorldConsume(p[1], p[2])

SpecBuiltWorld == InitBuiltWorld /\ [][NextBuiltWorld]_vars

(***************************************************************************)
(* SpecGrow: one _grow_cluster call, pass by pass of its while loop        *)
(***************************************************************************)
\* the grids a call can find: the empty grid for the first cluster, and for
\* the second the grids a first cluster of one cell leaves
GrownBefore(id) ==
  IF id = 0 THEN {EmptyGrid(MIN_REGROWTH_TIME) @@ <<>>}
  ELSE { st.grid : st \in UNION { GrowCluster(EmptyGrid(MIN_REGROWTH_TIME) @@ <<>>, c, 1, 0,
                                               NoRiver, MIN_REGROWTH_TIME) : c \in Pos } }

\* the world as a _grow_cluster call finds it, and the id of the cluster the
\* call is made for
InitGrow ==
  /\ REGROWTH_ENABLED = TRUE
  /\ MOVES_PER_DAY = MaxMovesPerDay
  /\ INITIAL_CALORIES = MAX_CALORIES
  /\ INITIAL_SLEEP = MAX_SLEEP
  /\ ret = NoCall
  /\ sinceConsumed = NoHistory
  /\ drawnAt = AtConstruction
  /\ agents = <<>>
  /\ call = NoUpdate
  /\ time = NewTimeSystem
  /\ changed = FALSE
  /\ game = NewGame
  /\ nightly = <<>>
  /\ before = <<>>
  /\ clusters = <<>>
  /\ lifecycle = NoLifecycle
  /\ lifecycleCall = NoLifecycleCall
  /\ nearest = NoNearest
  /\ \E id \in 0..1 : \E g \in GrownBefore(id) :
       /\ grid = g
       /\ growth = [NoGrowth EXCEPT !.id = id]

\* _grow_cluster up to its while loop: the center is written and listed and
\* the river direction is drawn; target_size is the caller's draw
GrowBegin ==
  /\ growth.target_size = 0
  /\ \E center \in Pos : \E target_size \in 1..MaxTargetSize :
     \E river \in (IF ClusterType(growth.id) = "water"
                   THEN RiverDirections \cup {NoRiver} ELSE {NoRiver}) :
       /\ grid' = [grid EXCEPT ![center] = ClusterCell(growth.id, MIN_REGROWTH_TIME)]
       /\ growth' = [center |-> center, target_size |-> target_size, id |-> growth.id,
                     river |-> river, regrowth_time |-> MIN_REGROWTH_TIME,
                     cells |-> <<center>>, queue |-> <<center>>,
                     entered |-> [NoHistory EXCEPT ![center] = 1], passes |-> 0]
  /\ UNCHANGED <<configVars, worldHistory, agents, call, time, changed, game, nightly,
                 before, clusters, lifecycleVars, nearest>>


\* the condition of the while loop of _grow_cluster
GrowContinues ==
  growth.queue # <<>> /\ Len(growth.cells) < growth.target_size

\* one pass of the while loop
GrowStep ==
  /\ GrowContinues
  /\ \E st \in GrowIteration([grid |-> grid, cells |-> growth.cells, queue |-> growth.queue],
                              growth.target_size, growth.id, growth.river,
                              growth.regrowth_time) :
       /\ grid' = st.grid
       /\ growth' = [growth EXCEPT
            !.cells = st.cells,
            !.queue = st.queue,
            !.passes = @ + 1,
            !.entered = [p \in Pos |->
                           @[p] + Cardinality({k \in 1..Len(st.queue) :
                                  /\ k > Len(st.queue) - (Len(st.cells) - Len(growth.cells))
                                  /\ st.queue[k] = p})]]
  /\ UNCHANGED <<configVars, worldHistory, agents, call, time, changed, game, nightly,
                 before, clusters, lifecycleVars, nearest>>

NextGrow == GrowBegin \/ GrowStep

SpecGrow == InitGrow /\ [][NextGrow]_vars

(***************************************************************************)
(* SpecTime: TimeSystem.update as a caller passes it agent lists           *)
(***************************************************************************)
\* the agents a list may hold: update reads alive, moves_today and
\* is_sleeping of each; moves_today is 0 or the largest quota
ListedAgents ==
  { [NewAgent(HOME_BASE_POSITION[1], HOME_BASE_POSITION[2], 1, MAX_CALORIES, MAX_SLEEP)
       EXCEPT !.alive = alive, !.moves_today = moves_today, !.is_sleeping = is_sleeping] :
      <<alive, moves_today, is_sleeping>> \in BOOLEAN \X {0, MaxMovesPerDay} \X BOOLEAN }

AgentLists == UNION { [1..n -> ListedAgents] : n \in 0..MaxListed }

InitTime ==
  /\ REGROWTH_ENABLED = TRUE
  /\ MOVES_PER_DAY \in 0..MaxMovesPerDay
  /\ INITIAL_CALORIES = MAX_CALORIES
  /\ INITIAL_SLEEP = MAX_SLEEP
  /\ grid = NoWorld
  /\ ret = NoCall
  /\ sinceConsumed = NoHistory
  /\ drawnAt = AtConstruction
  /\ agents = <<>>
  /\ call = NoUpdate
  /\ time = NewTimeSystem
  /\ changed = FALSE
  /\ game = NewGame
  /\ nightly = <<>>
  /\ before = <<>>
  /\ clusters = <<>>
  /\ lifecycle = NoLifecycle
  /\ growth = NoGrowth
  /\ nearest = NoNearest
  /\ lifecycleCall = NoLifecycleCall

\* time_system.update(as); agents holds the list passed
TimeUpdate(as) ==
  /\ time.time_cycles < MaxCycles
  /\ LET c == TimeSystemUpdate(time, as, MOVES_PER_DAY)
     IN  /\ time' = c.time
         /\ changed' = c.changed
  /\ agents' = as
  /\ UNCHANGED <<configVars, grid, worldHistory, call, game, nightly, before, clusters, lifecycleVars, growth, nearest>>

NextTime == \E as \in AgentLists : TimeUpdate(as)

SpecTime == InitTime /\ [][NextTime]_vars

(***************************************************************************)
(* SpecAgent: Agent.update as a caller passes it a world and is_day        *)
(***************************************************************************)
\* the worlds the agents are run in: the regrowth times of the cells play no
\* part in what an agent does
AgentWorlds ==
  {g \in SmallWorlds : \A p \in Pos : g[p].regrowth_time = MIN_REGROWTH_TIME}

InitAgent ==
  /\ REGROWTH_ENABLED = TRUE
  /\ MOVES_PER_DAY \in Quotas
  /\ INITIAL_CALORIES \in InitialCalories
  /\ INITIAL_SLEEP \in InitialSleeps
  /\ grid \in AgentWorlds
  /\ ret = NoCall
  /\ sinceConsumed = NoHistory
  /\ drawnAt = AtConstruction
  /\ \E p \in Pos : agents = <<NewAgent(p[1], p[2], 1, INITIAL_CALORIES, INITIAL_SLEEP)>>
  /\ call = NoUpdate
  /\ time = NewTimeSystem
  /\ changed = FALSE
  /\ game = NewGame
  /\ nightly = <<>>
  /\ before = <<>>
  /\ clusters = <<>>
  /\ lifecycle = NoLifecycle
  /\ growth = NoGrowth
  /\ nearest = NoNearest
  /\ lifecycleCall = NoLifecycleCall

\* agents[1].update(world, is_day); a caller that catches the TypeError of a
\* move holds the agent and the world as the interrupted call left them
AgentUpdate(is_day) ==
  /\ \E o \in Update(agents[1], grid, REGROWTH_ENABLED, MOVES_PER_DAY, is_day) :
       /\ agents' = <<o.agent>>
       /\ grid' = o.grid
       /\ call' = [made |-> TRUE, is_day |-> is_day, alive |-> agents[1].alive,
                   raised |-> o.raised, result |-> o.result]
  /\ UNCHANGED <<configVars, worldHistory, time, changed, game, nightly, before, clusters, lifecycleVars, growth, nearest>>

NextAgent == \E is_day \in BOOLEAN : AgentUpdate(is_day)

SpecAgent == InitAgent /\ [][NextAgent]_vars

(***************************************************************************)
(* SpecNightly: the nightly routine of an agent that holds collected        *)
(* calories.  collected_calories is a public attribute that only the two   *)
(* move paths and the nightly routine assign; the agent here is one a      *)
(* caller has credited with collected calories before night falls.         *)
(***************************************************************************)
InitNightly ==
  /\ REGROWTH_ENABLED = TRUE
  /\ MOVES_PER_DAY = MaxMovesPerDay
  /\ INITIAL_CALORIES \in InitialCalories
  /\ INITIAL_SLEEP \in InitialSleeps
  /\ grid = NoWorld
  /\ ret = NoCall
  /\ sinceConsumed = NoHistory
  /\ drawnAt = AtConstruction
  /\ \E collected \in 0..MaxCollected :
       agents = <<[NewAgent(HOME_BASE_POSITION[1], HOME_BASE_POSITION[2], 1,
                            INITIAL_CALORIES, INITIAL_SLEEP)
                     EXCEPT !.collected_calories = collected]>>
  /\ call = NoUpdate
  /\ time = NewTimeSystem
  /\ changed = FALSE
  /\ game = NewGame
  /\ nightly = <<>>
  /\ before = <<>>
  /\ clusters = <<>>
  /\ lifecycle = NoLifecycle
  /\ growth = NoGrowth
  /\ nearest = NoNearest
  /\ lifecycleCall = NoLifecycleCall

\* agents[1].update(world, is_day=False), night after night
NightlyUpdate == AgentUpdate(FALSE)

NextNightly == NightlyUpdate

SpecNightly == InitNightly /\ [][NextNightly]_vars

(***************************************************************************)
(* SpecCoordinator: Game._check_time_transition on the agents as a tick's  *)
(* updates may have left them                                              *)
(***************************************************************************)
\* the agents Game.agents may hold when _check_time_transition runs: it and
\* TimeSystem.update read alive, the position, collected_calories,
\* moves_today (by day) and is_sleeping (by night).  An agent is alive or
\* dead, at home or in a corner of the world, holds MaxCollected collected
\* calories, and is either short of its quota and awake or at its quota and
\* asleep
CoordinatorAgents ==
  { [NewAgent(p[1], p[2], 1, MAX_CALORIES, MAX_SLEEP)
       EXCEPT !.alive = alive, !.collected_calories = MaxCollected,
              !.moves_today = phase[1], !.is_sleeping = phase[2]] :
      <<alive, p, phase>> \in
        BOOLEAN \X {HOME_BASE_POSITION, <<0, 0>>}
          \X {<<0, FALSE>>, <<MaxMovesPerDay, TRUE>>} }

InitCoordinator ==
  /\ REGROWTH_ENABLED = TRUE
  /\ MOVES_PER_DAY = MaxMovesPerDay
  /\ INITIAL_CALORIES = MAX_CALORIES
  /\ INITIAL_SLEEP = MAX_SLEEP
  /\ grid = NoWorld
  /\ ret = NoCall
  /\ sinceConsumed = NoHistory
  /\ drawnAt = AtConstruction
  /\ \E count \in 1..MaxAgents :
       agents = CreateAgents(count, INITIAL_CALORIES, INITIAL_SLEEP)
  /\ call = NoUpdate
  /\ time = NewTimeSystem
  /\ changed = FALSE
  /\ game = NewGame
  /\ nightly = <<>>
  /\ before = <<>>
  /\ clusters = <<>>
  /\ lifecycle = NoLifecycle
  /\ growth = NoGrowth
  /\ nearest = NoNearest
  /\ lifecycleCall = NoLifecycleCall

\* game._check_time_transition() with Game.agents holding as
CoordinatorCheck(as) ==
  /\ time.time_cycles < MaxCycles
  /\ LET c == CheckTimeTransition(time, as, game.active_agent_index, MOVES_PER_DAY)
     IN  /\ agents' = c.agents
         /\ time' = c.time
         /\ changed' = c.changed
         /\ game' = [game EXCEPT !.active_agent_index = c.active_agent_index]
  /\ before' = as
  /\ UNCHANGED <<configVars, grid, worldHistory, call, nightly, clusters, lifecycleVars, growth, nearest>>

NextCoordinator == \E as \in [1..Len(agents) -> CoordinatorAgents] : CoordinatorCheck(as)

SpecCoordinator == InitCoordinator /\ [][NextCoordinator]_vars

(***************************************************************************)
(* SpecGame: the game loop (Game.run) and its key handlers                 *)
(***************************************************************************)
InitGame ==
  /\ REGROWTH_ENABLED \in BOOLEAN
  /\ MOVES_PER_DAY \in Quotas
  /\ INITIAL_CALORIES \in InitialCalories
  /\ INITIAL_SLEEP \in InitialSleeps
  /\ grid \in AgentWorlds
  /\ ret = NoCall
  /\ sinceConsumed = NoHistory
  /\ drawnAt = AtConstruction
  /\ \E count \in 1..MaxAgents :
       /\ agents = CreateAgents(count, INITIAL_CALORIES, INITIAL_SLEEP)
       /\ nightly = NoNightly(count)
  /\ call = NoUpdate
  /\ time = NewTimeSystem
  /\ changed = FALSE
  /\ game = NewGame
  /\ before = <<>>
  /\ clusters = <<>>
  /\ lifecycle = NoLifecycle
  /\ growth = NoGrowth
  /\ nearest = NoNearest
  /\ lifecycleCall = NoLifecycleCall

\* whether agent i made a nightly consumption, and whether it woke, in the
\* agent updates of a tick that took the agents from as to bs (read off the
\* fields they change)
Ate(is_day, as, bs, i) ==
  /\ ~is_day
  /\ \/ bs[i].calories # as[i].calories
     \/ bs[i].collected_calories # as[i].collected_calories

Woke(as, bs, i) == bs[i].days_survived # as[i].days_survived

\* Game._update with the game running: one tick
Tick ==
  /\ game.state = STATE_RUNNING
  /\ ~game.crashed
  /\ game.turns < MaxTurns
  /\ \E draws \in [CompletingCells(grid, REGROWTH_ENABLED) -> RegrowthTimes] :
     \E u \in UpdateAgentsFrom(agents, WorldUpdateGrid(grid, REGROWTH_ENABLED, draws), 1,
                               REGROWTH_ENABLED, MOVES_PER_DAY, time.is_day) :
       /\ grid' = u.grid
       /\ IF u.raised
          THEN /\ agents' = u.agents
               /\ game' = [game EXCEPT !.crashed = TRUE]
               /\ UNCHANGED <<time, changed, nightly, before>>
          ELSE LET c == CheckTimeTransition(time, u.agents, game.active_agent_index,
                                            MOVES_PER_DAY)
               IN  /\ agents' = c.agents
                   /\ time' = c.time
                   /\ changed' = c.changed
                   /\ game' = [game EXCEPT
                        !.active_agent_index = c.active_agent_index,
                        !.state = IF \E i \in 1..Len(c.agents) : c.agents[i].alive
                                  THEN @ ELSE STATE_GAME_OVER,
                        !.turns = @ + 1]
                   /\ before' = u.agents
                   /\ nightly' =
                        IF c.changed /\ ~c.time.is_day THEN NoNightly(Len(agents))
                        ELSE [i \in 1..Len(agents) |->
                                [eaten |-> nightly[i].eaten
                                             + (IF Ate(time.is_day, agents, u.agents, i) THEN 1 ELSE 0),
                                 woken |-> nightly[i].woken
                                             + (IF Woke(agents, u.agents, i) THEN 1 ELSE 0)]]
  /\ UNCHANGED <<configVars, worldHistory, call, clusters, lifecycleVars, growth, nearest>>

\* KEY_PAUSE: Game._toggle_pause
TogglePause ==
  /\ ~game.crashed
  /\ game' = [game EXCEPT !.state = IF @ = STATE_RUNNING THEN STATE_PAUSED
                                    ELSE STATE_RUNNING]
  /\ UNCHANGED <<configVars, grid, worldHistory, agents, call, time, changed, nightly,
                 before, clusters, lifecycleVars, growth, nearest>>

\* KEY_RESTART: Game._initialize_game builds a new world and new agents and
\* assigns state, time_system.is_day, turns and active_agent_index
Restart ==
  /\ ~game.crashed
  /\ time.time_cycles < MaxCycles
  /\ grid' \in AgentWorlds
  /\ agents' = CreateAgents(Len(agents), INITIAL_CALORIES, INITIAL_SLEEP)
  /\ game' = [game EXCEPT !.state = STATE_RUNNING, !.turns = 0,
                          !.active_agent_index = 1]
  /\ time' = [time EXCEPT !.is_day = TRUE]
  /\ nightly' = NoNightly(Len(agents))
  /\ before' = <<>>
  /\ UNCHANGED <<configVars, worldHistory, call, changed, clusters, lifecycleVars, growth, nearest>>

NextGame == Tick \/ TogglePause \/ Restart

SpecGame == InitGame /\ [][NextGame]_vars

(***************************************************************************)
(* SpecNight: the game loop from a nightfall that finds the agents at home *)
(* with any sleep energies and calories                                    *)
(***************************************************************************)
\* the state _transition_to_night leaves in the first night, with agents
\* that are awake, at home, and hold no collected calories
InitNight ==
  /\ REGROWTH_ENABLED = TRUE
  /\ MOVES_PER_DAY = 0
  /\ INITIAL_CALORIES = MAX_CALORIES
  /\ INITIAL_SLEEP = MAX_SLEEP
  /\ grid = NoWorld
  /\ ret = NoCall
  /\ sinceConsumed = NoHistory
  /\ drawnAt = AtConstruction
  /\ \E count \in 1..MaxAgents :
       /\ \E held \in [1..count -> InitialCalories \X (1..MAX_SLEEP)] :
            agents = [i \in 1..count |->
                        NewAgent(HOME_BASE_POSITION[1], HOME_BASE_POSITION[2], i,
                                 held[i][1], held[i][2])]
       /\ nightly = NoNightly(count)
  /\ call = NoUpdate
  /\ time = TransitionToNight(NewTimeSystem)
  /\ changed = TRUE
  /\ game = NewGame
  /\ before = <<>>
  /\ clusters = <<>>
  /\ lifecycle = NoLifecycle
  /\ lifecycleCall = NoLifecycleCall
  /\ growth = NoGrowth
  /\ nearest = NoNearest

\* the loop of Game.run calls _update on every frame while the game runs
SpecNight == InitNight /\ [][Tick]_vars /\ WF_vars(Tick)

(***************************************************************************)
(* SpecPath: Agent._calculate_path_to_home on agents created around home   *)
(***************************************************************************)
\* the positions the agents are created at: Agent(x, y) places an agent
\* without consulting a world, and the path is computed from the agent's
\* and the home's coordinates alone
PathStarts ==
  { <<HOME_BASE_POSITION[1] + i, HOME_BASE_POSITION[2] + j>> :
      <<i, j>> \in ((0 - PathReach)..PathReach) \X ((0 - PathReach)..PathReach) }

InitPath ==
  /\ REGROWTH_ENABLED = TRUE
  /\ MOVES_PER_DAY = MaxMovesPerDay
  /\ INITIAL_CALORIES \in InitialCalories
  /\ INITIAL_SLEEP \in InitialSleeps
  /\ grid = NoWorld
  /\ ret = NoCall
  /\ sinceConsumed = NoHistory
  /\ drawnAt = AtConstruction
  /\ \E p \in PathStarts :
       agents = <<NewAgent(p[1], p[2], 1, INITIAL_CALORIES, INITIAL_SLEEP)>>
  /\ call = NoUpdate
  /\ time = NewTimeSystem
  /\ changed = FALSE
  /\ game = NewGame
  /\ nightly = <<>>
  /\ before = <<>>
  /\ clusters = <<>>
  /\ lifecycle = NoLifecycle
  /\ growth = NoGrowth
  /\ nearest = NoNearest
  /\ lifecycleCall = NoLifecycleCall

\* agents[1]._calculate_path_to_home(); call.made records that the call was
\* made
CalculatesPath ==
  /\ agents' = <<[agents[1] EXCEPT !.path_to_home = CalculatePathToHome(agents[1])]>>
  /\ call' = [NoUpdate EXCEPT !.made = TRUE]
  /\ UNCHANGED <<configVars, grid, worldHistory, time, changed, game, nightly,
                 before, clusters, lifecycleVars, growth, nearest>>

NextPath == CalculatesPath

SpecPath == InitPath /\ [][NextPath]_vars

(***************************************************************************)
(* SpecLifecycle: a lifecycle agent as a client calls its methods          *)
(***************************************************************************)
LifecyclePositions == {<<0, 0>>, <<5, 5>>}

InitLifecycle ==
  /\ REGROWTH_ENABLED = TRUE
  /\ MOVES_PER_DAY = MaxMovesPerDay
  /\ INITIAL_CALORIES = MAX_CALORIES
  /\ INITIAL_SLEEP = MAX_SLEEP
  /\ grid = NoWorld
  /\ ret = NoCall
  /\ sinceConsumed = NoHistory
  /\ drawnAt = AtConstruction
  /\ agents = <<>>
  /\ call = NoUpdate
  /\ time = NewTimeSystem
  /\ changed = FALSE
  /\ game = NewGame
  /\ nightly = <<>>
  /\ before = <<>>
  /\ clusters = <<>>
  /\ growth = NoGrowth
  /\ nearest = NoNearest
  /\ \E initial_energy \in 1..MaxInitialEnergy :
       /\ lifecycle = NewLifecycleAgent(1, <<0, 0>>, initial_energy)
       /\ lifecycleCall = [NoLifecycleCall EXCEPT !.ticked_from = initial_energy]

LifecycleFrame ==
  UNCHANGED <<configVars, grid, worldHistory, agents, call, time, changed, game, nightly,
              before, clusters, growth, nearest>>

\* agent.tick()
Ticks ==
  /\ lifecycle.age < MaxAge
  /\ lifecycle' = LifecycleTick(lifecycle)
  /\ lifecycleCall' = [NoLifecycleCall EXCEPT !.op = "tick",
                                              !.ticked_from = lifecycleCall.ticked_from]
  /\ LifecycleFrame

\* agent.die()
Dies ==
  /\ lifecycle' = LifecycleDie(lifecycle)
  /\ lifecycleCall' = [NoLifecycleCall EXCEPT !.op = "die"]
  /\ LifecycleFrame

\* agent.reproduce(2)
Reproduces ==
  /\ LET r == LifecycleReproduce(lifecycle, 2)
     IN  /\ lifecycle' = r.agent
         /\ lifecycleCall' = [NoLifecycleCall EXCEPT !.op = "reproduce",
                                                      !.returned = r.offspring]
  /\ LifecycleFrame

\* agent.eat(food_energy)
Eats(food_energy) ==
  /\ lifecycle' = LifecycleEat(lifecycle, food_energy)
  /\ lifecycleCall' = [NoLifecycleCall EXCEPT !.op = "eat", !.food_energy = food_energy]
  /\ LifecycleFrame

\* agent.move(new_position)
Moves(new_position) ==
  /\ lifecycle' = LifecycleMove(lifecycle, new_position)
  /\ lifecycleCall' = [NoLifecycleCall EXCEPT !.op = "move",
                                              !.ticked_from = lifecycleCall.ticked_from]
  /\ LifecycleFrame

NextLifecycle ==
  \/ Ticks
  \/ Dies
  \/ Reproduces
  \/ \E food_energy \in 0..MaxFood : Eats(food_energy)
  \/ \E new_position \in LifecyclePositions : Moves(new_position)

SpecLifecycle == InitLifecycle /\ [][NextLifecycle]_vars

C2_TerminalState ==
  [][\A i \in 1..Len(agents) :
       ~agents[i].alive =>
         /\ Len(agents') = Len(agents)
         /\ ~agents'[i].alive
         /\ agents'[i].x = agents[i].x /\ agents'[i].y = agents[i].y
         /\ agents'[i].sleep_energy = agents[i].sleep_energy
         /\ agents'[i].calories = agents[i].calories
         /\ agents'[i].collected_calories = agents[i].collected_calories
         /\ agents'[i].moves_today = agents[i].moves_today
         /\ agents'[i].days_survived = agents[i].days_survived
         /\ agents'[i].state = agents[i].state
    ]_vars

\* C2 witness: a nighttime update() has been called on an agent that was
\* already dead of exhaustion
C2_Witness ==
  /\ call.made /\ ~call.alive /\ ~call.is_day
  /\ ~agents[1].alive
  /\ agents[1].sleep_energy = 0

\* C3 (death sets the state): in every reachable state an agent has
\* alive = false if and only if its state is DEAD.
C3_DeadIffStateDead ==
  \A i \in 1..Len(agents) : ~agents[i].alive <=> agents[i].state = STATE_DEAD

(***************************************************************************)
(* Claims about the day/night transitions                                  *)
(***************************************************************************)
\* C4 (barrier synchronization): while it is day, TimeSystem.update(agents)
\* switches to night and returns True if and only if at least one agent is
\* alive and every living agent has moves_today >= MOVES_PER_DAY; otherwise it
\* returns False and changes nothing; agents that are not alive never hold
\* the barrier.
C4_BarrierSynchronization ==
  [][time.is_day =>
       LET living == {i \in 1..Len(agents') : agents'[i].alive}
           done == /\ living # {}
                   /\ \A i \in living : agents'[i].moves_today >= MOVES_PER_DAY
       IN  /\ changed' <=> done
           /\ done => time' = [is_day |-> FALSE, current_state |-> STATE_NIGHT,
                               day_count |-> time.day_count,
                               time_cycles |-> time.time_cycles + 1]
           /\ ~done => time' = time
    ]_vars

\* C4 witness: night fell on a call whose list held a dead agent short of the
\* quota beside a living agent that had reached it
C4_Witness ==
  /\ changed /\ ~time.is_day
  /\ \E i \in 1..Len(agents) :
       ~agents[i].alive /\ agents[i].moves_today < MOVES_PER_DAY
  /\ \E i \in 1..Len(agents) :
       agents[i].alive /\ agents[i].moves_today >= MOVES_PER_DAY

\* C5 (night to day): while it is night, TimeSystem.update(agents) switches to
\* day and returns True if and only if at least one agent is alive and no
\* living agent has is_sleeping set; otherwise it returns False and changes
\* nothing, in particular when every living agent is sleeping.
C5_NightToDay ==
  [][~time.is_day =>
       LET living == {i \in 1..Len(agents') : agents'[i].alive}
           awake == /\ living # {}
                    /\ \A i \in living : ~agents'[i].is_sleeping
       IN  /\ changed' <=> awake
           /\ awake => time' = [is_day |-> TRUE, current_state |-> STATE_DAY,
                                day_count |-> time.day_count + 1,
                                time_cycles |-> time.time_cycles + 1]
           /\ ~awake => time' = time
           /\ (living # {} /\ \A i \in living : agents'[i].is_sleeping)
                => ~time'.is_day /\ ~changed'
    ]_vars

\* C5 witness: day broke on a call whose list held a dead agent still marked
\* sleeping beside a living agent that was awake
C5_Witness ==
  /\ changed /\ time.is_day /\ time.day_count >= 1
  /\ \E i \in 1..Len(agents) : ~agents[i].alive /\ agents[i].is_sleeping
  /\ \E i \in 1..Len(agents) : agents[i].alive /\ ~agents[i].is_sleeping

C7_RegrowthRoundTrip ==
  [][\A p \in Pos :
       /\ (REGROWTH_ENABLED /\ grid[p].state = STATE_FULL /\ grid'[p].state # STATE_FULL)
            => grid'[p].state = STATE_REGROWING /\ sinceConsumed'[p] = 0
       /\ grid'[p].state = STATE_REGROWING
            => /\ grid'[p].resources = 0
               /\ ~HasResources(grid', p[1], p[2])
               /\ sinceConsumed'[p] < grid'[p].regrowth_time
       /\ grid[p].state = STATE_REGROWING
            => \/ /\ grid'[p].state = STATE_REGROWING
                  /\ grid'[p].regrowth_time = grid[p].regrowth_time
               \/ /\ grid'[p].state = STATE_FULL
                  /\ ret'.op = "update"
                  /\ sinceConsumed'[p] = grid[p].regrowth_time
                  /\ grid'[p].resources = ResourceValue(grid[p].resource_type)
                  /\ HasResources(grid', p[1], p[2])
    ]_vars

\* C7 witness: a cell that was consumed and has regrown to FULL
C7_Witness ==
  \E p \in Pos :
    /\ REGROWTH_ENABLED
    /\ grid[p].state = STATE_FULL
    /\ drawnAt[p] = "completion"
    /\ sinceConsumed[p] >= MIN_REGROWTH_TIME
    /\ grid[p].resources = ResourceValue(grid[p].resource_type)

\* C8 (regrowth disabled): consuming a FULL cell returns its amount and leaves
\* it CONSUMED with amount 0; a CONSUMED cell is changed by no update() and no
\* consume, and every consume of it returns 0.
C8_ConsumedForever ==
  [][~REGROWTH_ENABLED =>
       \A p \in Pos :
         /\ (grid[p].state = STATE_FULL /\ grid'[p] # grid[p])
              => /\ grid'[p].state = STATE_CONSUMED
                 /\ grid'[p].resources = 0
                 /\ ret'.op = "consume" /\ ret'.on = STATE_FULL
                 /\ ret'.amount = grid[p].resources /\ ret'.amount > 0
         /\ grid[p].state = STATE_FULL => (ret'.op = "update" => grid'[p] = grid[p])
         /\ grid[p].state = STATE_CONSUMED => grid'[p] = grid[p]
         /\ (grid[p].state = STATE_CONSUMED /\ WorldConsume(p[1], p[2]))
              => ret'.amount = 0
    ]_vars

\* C8 witness: a cluster cell consumed with regrowth disabled, after a further
\* consume that returned 0
C8_Witness ==
  /\ ~REGROWTH_ENABLED
  /\ ret.op = "consume" /\ ret.on = STATE_CONSUMED /\ ret.amount = 0
  /\ \A p \in ResourceCells(grid) : grid[p].state = STATE_CONSUMED

\* C9 (consume is a no-op unless FULL): consume_resources on a position that
\* is out of bounds or whose cell is not FULL returns (0, None) and changes
\* no cell; on a FULL cell it returns the cell's amount and type as they were
\* before the call.
C9_ConsumeNoOp ==
  [][ret'.op = "consume" =>
       IF ret'.on = STATE_FULL
       THEN \E p \in Pos :
              /\ HasResources(grid, p[1], p[2])
              /\ ret'.amount = grid[p].resources
              /\ ret'.type = grid[p].resource_type
              /\ \A q \in Pos \ {p} : grid'[q] = grid[q]
              /\ grid'[p] # grid[p]
       ELSE /\ grid' = grid
            /\ ret'.amount = 0
            /\ ret'.type = NoType
    ]_vars

\* C9 witness: a consume on a regrowing cell whose regrowth is under way
C9_Witness ==
  /\ ret.op = "consume" /\ ret.on = STATE_REGROWING /\ ret.amount = 0
  /\ Cardinality({p \in Pos : grid[p].state = STATE_REGROWING}) = 1
  /\ \E p \in Pos : grid[p].state = STATE_REGROWING /\ grid[p].regrowth_counter > 0

\* C10 as claimed: the duration that governs a regrowth was drawn by the
\* consume call that started it.
C10_DrawnAtConsume ==
  \A p \in Pos : grid[p].state = STATE_REGROWING => drawnAt[p] = "consume"

\* C10 as amended: a consume call changes no cell's regrowth_time; the
\* duration that governs a regrowth is the one the cell held before its
\* consumption, drawn from [MIN_REGROWTH_TIME, MAX_REGROWTH_TIME] when the
\* cell was constructed or when its previous regrowth completed, and a new
\* one is drawn only on the update() call that completes a regrowth.
C10_DrawnAtCompletion ==
  [][\A p \in Pos :
       /\ grid'[p].regrowth_time \in RegrowthTimes
       /\ ret'.op = "consume" => grid'[p].regrowth_time = grid[p].regrowth_time
       /\ grid'[p].regrowth_time # grid[p].regrowth_time
            => grid[p].state = STATE_REGROWING /\ grid'[p].state = STATE_FULL
       /\ (grid[p].state = STATE_REGROWING /\ grid'[p].state = STATE_FULL)
            => sinceConsumed'[p] = grid[p].regrowth_time
    ]_vars

\* C10 witness: a regrowth under way whose duration dates from construction,
\* and one whose duration dates from the previous completion
C10_Witness ==
  \E p \in Pos :
    /\ grid[p].state = STATE_REGROWING
    /\ drawnAt[p] = "completion"
    /\ sinceConsumed[p] > 0

\* C11 (cell invariant): in every reachable state every cell that is FULL
\* holds a resource amount > 0 and every cell that is CONSUMED or REGROWING
\* holds the amount 0.
C11_CellInvariant ==
  \A p \in Pos :
    /\ grid[p].state \in {STATE_FULL, STATE_CONSUMED, STATE_REGROWING}
    /\ grid[p].state = STATE_FULL => grid[p].resources > 0
    /\ grid[p].state \in {STATE_CONSUMED, STATE_REGROWING} => grid[p].resources = 0

\* C11 witness: after an update(), a world that holds a cell that has regrown,
\* a cell that is regrowing and a cell that never held resources
C11_Witness ==
  /\ ret.op = "update"
  /\ \E p \in Pos : grid[p].state = STATE_FULL /\ drawnAt[p] = "completion"
  /\ \E p \in Pos : grid[p].state = STATE_REGROWING /\ grid[p].regrowth_counter > 0
  /\ \E p \in Pos : grid[p].state = STATE_CONSUMED /\ grid[p].resource_type = NoType

(***************************************************************************)
(* Claims about the agent's moves                                          *)
(***************************************************************************)
\* C12 (one foraging move): a daytime update that makes a foraging move onto
\* an in-bounds destination returns normally with the agent on the
\* destination, collected_calories higher by the amount the destination cell
\* held (its resources if FULL, else 0) and sleep_energy lower by exactly 1,
\* and the agent is dead, in state DEAD, if and only if sleep_energy reached 0.
C12_ForagingMove ==
  [][LET a == agents[1]
         b == agents'[1]
         new_x == a.x + b.last_dx
         new_y == a.y + b.last_dy
         amount == IF HasResources(grid, new_x, new_y)
                   THEN grid[<<new_x, new_y>>].resources ELSE 0
     IN  (call'.is_day /\ Forages(a, MOVES_PER_DAY) /\ IsValidPosition(new_x, new_y))
           => /\ ~call'.raised
              /\ b.x = new_x /\ b.y = new_y
              /\ b.collected_calories = a.collected_calories + amount
              /\ b.sleep_energy = a.sleep_energy - 1
              /\ ~b.alive <=> b.sleep_energy = 0
              /\ ~b.alive => b.state = STATE_DEAD
    ]_vars

\* C13 (nightly consumption): the first nighttime update of a living agent
\* that is awake eats min(collected_calories, CALORIE_CONSUMPTION_PER_DAY):
\* collected_calories drops by what was eaten, calories become
\* min(MAX_CALORIES, calories + eaten) minus the part of the requirement that
\* was not eaten, the agent dies if and only if the resulting calories are
\* <= 0, and calories do not decrease when the collected calories covered the
\* requirement.
C13_NightlyConsumption ==
  [][LET a == agents[1]
         b == agents'[1]
         eaten == IF a.collected_calories < CALORIE_CONSUMPTION_PER_DAY
                  THEN a.collected_calories ELSE CALORIE_CONSUMPTION_PER_DAY
         fed == IF a.calories + eaten > MAX_CALORIES THEN MAX_CALORIES
                ELSE a.calories + eaten
     IN  (~call'.is_day /\ a.alive /\ ~a.is_sleeping)
           => /\ b.collected_calories = a.collected_calories - eaten
              /\ b.calories = fed - (CALORIE_CONSUMPTION_PER_DAY - eaten)
              /\ ~b.alive <=> b.calories <= 0
              /\ a.collected_calories >= CALORIE_CONSUMPTION_PER_DAY
                   => b.calories >= a.calories /\ b.alive
    ]_vars

\* C13 witness: the first night of an agent whose collected calories exceeded
\* the requirement and filled its calories to the cap
C13_Witness ==
  /\ call.made /\ ~call.is_day
  /\ agents[1].alive /\ agents[1].is_sleeping /\ agents[1].days_survived = 0
  /\ agents[1].collected_calories > 0
  /\ agents[1].calories = MAX_CALORIES
  /\ INITIAL_CALORIES + CALORIE_CONSUMPTION_PER_DAY > MAX_CALORIES

\* C14 (return decision): in a daytime update, a living agent that is not yet
\* returning starts to return if and only if its Manhattan distance to home
\* before the update is >= MOVES_PER_DAY - moves_today.  It then is in state
\* RETURNING (or died on the homing step of that same update), has made its
\* homing step if it was away from home, and holds the rest of the planned
\* path; an agent for which the distance is smaller keeps its state, is not
\* returning and takes the foraging branch.
C14_ReturnDecision ==
  [][LET a == agents[1]
         b == agents'[1]
         distance == Abs(a.x - HOME_BASE_POSITION[1]) + Abs(a.y - HOME_BASE_POSITION[2])
         remaining == MOVES_PER_DAY - a.moves_today
     IN  (call'.is_day /\ a.alive /\ ~a.returning_home)
           => IF distance >= remaining
              THEN /\ b.state = STATE_RETURNING \/ (~b.alive /\ b.state = STATE_DEAD)
                   /\ GetDistanceToHome(b) = (IF distance > 0 THEN distance - 1 ELSE 0)
                   /\ Len(b.path_to_home) = GetDistanceToHome(b)
                   /\ b.returning_home <=> distance > 0
              ELSE /\ b.state = a.state
                   /\ ~b.returning_home
                   /\ b.path_to_home = a.path_to_home
                   /\ b.sleep_energy = a.sleep_energy
    ]_vars

\* C14 witness: with a quota of several moves, an agent that started its day
\* as far from home as its quota, started to return on its first update and
\* is one step closer
C14_Witness ==
  /\ call.made /\ call.is_day /\ MOVES_PER_DAY > 1
  /\ agents[1].alive
  /\ agents[1].state = STATE_RETURNING /\ agents[1].returning_home
  /\ agents[1].moves_today = 0
  /\ agents[1].sleep_energy = INITIAL_SLEEP - 1
  /\ GetDistanceToHome(agents[1]) = MOVES_PER_DAY - 1
  /\ Len(agents[1].path_to_home) = MOVES_PER_DAY - 1

\* C15 (homing step = foraging step): from the same agent and onto the same
\* in-bounds neighbouring cell, a homing step (_move_towards_home with that
\* cell next on the path) and a foraging step (move with that cell chosen)
\* end the same way and leave the same sleep_energy, collected_calories,
\* destination cell, alive flag and total_distance_traveled, and both count
\* as a move (return True) or neither does.
C15_SameAccounting ==
  \A dx, dy \in {0 - 1, 0, 1} :
    LET a == agents[1]
        dest == <<a.x + dx, a.y + dy>>
        homing == MoveTowardsHome([a EXCEPT !.returning_home = TRUE,
                                            !.path_to_home = <<dest>>],
                                  grid, REGROWTH_ENABLED)
        foraging == MoveTo(Movement(a, dx, dy), grid, REGROWTH_ENABLED)
    IN  (a.alive /\ <<dx, dy>> # <<0, 0>> /\ IsValidPosition(dest[1], dest[2]))
          => /\ homing.raised = foraging.raised
             /\ homing.result = foraging.result
             /\ homing.agent.sleep_energy = foraging.agent.sleep_energy
             /\ homing.agent.collected_calories = foraging.agent.collected_calories
             /\ homing.agent.alive = foraging.agent.alive
             /\ homing.agent.total_distance_traveled
                  = foraging.agent.total_distance_traveled
             /\ homing.grid[dest] = foraging.grid[dest]

\* C16 (arrival clears the return): after a daytime update whose homing step
\* brought the agent onto the home coordinates alive, the agent's
\* returning_home flag is cleared, its state is not RETURNING and its path_to_home is empty.
C16_HomeClearsReturning ==
  [][LET a == agents[1]
         b == agents'[1]
     IN  (call'.is_day /\ Homes(a, MOVES_PER_DAY) /\ ~IsAtHome(a) /\ IsAtHome(b) /\ b.alive)
           => /\ ~b.returning_home
              /\ b.state # STATE_RETURNING
              /\ b.path_to_home = <<>>
    ]_vars

\* C17 (out-of-bounds move rejected): a daytime update whose foraging move
\* chose a destination outside the world returns False without raising and
\* leaves the agent's position, sleep_energy, collected_calories, calories,
\* moves_today, alive flag and state unchanged and every cell as it was; the
\* agent still forages on the next update.
C17_RejectedMove ==
  [][LET a == agents[1]
         b == agents'[1]
         new_x == a.x + b.last_dx
         new_y == a.y + b.last_dy
     IN  (call'.is_day /\ Forages(a, MOVES_PER_DAY) /\ ~IsValidPosition(new_x, new_y))
           => /\ ~call'.raised /\ ~call'.result
              /\ b.x = a.x /\ b.y = a.y
              /\ b.sleep_energy = a.sleep_energy
              /\ b.collected_calories = a.collected_calories
              /\ b.calories = a.calories
              /\ b.moves_today = a.moves_today
              /\ b.alive /\ b.state = a.state
              /\ grid' = grid
              /\ Forages(b, MOVES_PER_DAY)
    ]_vars

\* C17 witness: a foraging agent whose last update chose a step that leaves
\* the world and returned False
C17_Witness ==
  /\ call.made /\ call.is_day /\ call.alive /\ ~call.raised /\ ~call.result
  /\ Forages(agents[1], MOVES_PER_DAY)
  /\ <<agents[1].last_dx, agents[1].last_dy>> # <<0, 0>>
  /\ ~IsValidPosition(agents[1].x + agents[1].last_dx, agents[1].y + agents[1].last_dy)

(***************************************************************************)
(* Claims about the coordinator's nightfall penalty                        *)
(***************************************************************************)
\* C18 (stranded at dusk): on the _check_time_transition call that turns day
\* into night, every living agent that is not on the home coordinates loses
\* floor(collected_calories / 2) of its collected_calories and nothing else
\* of it changes; living agents at home and dead agents are left as they
\* were; on every other call (no transition, or night turning into day) no
\* agent is changed, so the penalty falls at most once per night.
C18_StrandedAtDusk ==
  [][LET dusk == time.is_day /\ ~time'.is_day
     IN  /\ Len(agents') = Len(before')
         /\ \A i \in 1..Len(agents') :
              LET a == before'[i]
                  b == agents'[i]
                  stranded == a.alive /\ ~(a.x = HOME_BASE_POSITION[1]
                                           /\ a.y = HOME_BASE_POSITION[2])
              IN  IF dusk /\ stranded
                  THEN b = [a EXCEPT !.collected_calories =
                                       a.collected_calories - (a.collected_calories \div 2)]
                  ELSE b = a
    ]_vars

\* C18 witness: night has just fallen on a living stranded agent that lost
\* floor(MaxCollected / 2) and on a dead stranded agent that kept everything
C18_Witness ==
  /\ changed /\ ~time.is_day
  /\ \E i \in 1..Len(agents) :
       /\ before[i].alive /\ ~IsAtHome(before[i])
       /\ before[i].collected_calories = MaxCollected
       /\ agents[i].collected_calories = MaxCollected - (MaxCollected \div 2)
  /\ \E i \in 1..Len(agents) :
       /\ ~before[i].alive /\ ~IsAtHome(before[i])
       /\ agents[i].collected_calories = MaxCollected

\* C19 as claimed: on the call where TimeSystem.update reports a transition
\* and the new phase is day, every living agent that is not at home loses
\* half of its collected_calories.
C19_PenaltyAtDaybreak ==
  [][(changed' /\ ~time.is_day /\ time'.is_day) =>
       \A i \in 1..Len(agents') :
         (before'[i].alive /\ ~IsAtHome(before'[i]))
           => agents'[i].collected_calories =
                before'[i].collected_calories - (before'[i].collected_calories \div 2)
    ]_vars

\* C19 as amended: the coordinator applies the penalty on the day->night
\* edge, i.e. on the call where TimeSystem.update reports a transition and
\* the new phase is night; on the night->day edge it changes no agent and
\* only makes the active agent a living one (the first living agent when the
\* active one is dead); when no transition is reported it changes nothing.
C19_PenaltyAtNightfall ==
  [][LET penalized == \E i \in 1..Len(agents') : agents'[i] # before'[i]
         stranded == \E i \in 1..Len(agents') :
                       /\ before'[i].alive /\ ~IsAtHome(before'[i])
                       /\ before'[i].collected_calories > 1
         living == {i \in 1..Len(agents') : agents'[i].alive}
     IN  /\ penalized <=> (changed' /\ ~time'.is_day /\ stranded)
         /\ (changed' /\ ~time'.is_day) => time.is_day
         /\ (changed' /\ time'.is_day)
              => /\ ~time.is_day
                 /\ agents' = before'
                 /\ agents'[game'.active_agent_index].alive
                 /\ game'.active_agent_index # game.active_agent_index
                      => /\ ~agents'[game.active_agent_index].alive
                         /\ \A j \in living : game'.active_agent_index <= j
         /\ ~changed' => time' = time /\ game' = game
    ]_vars

\* C19 witness: a second night has fallen, and the stranded living agent has
\* been penalized on this edge
C19_Witness ==
  /\ changed /\ ~time.is_day /\ time.day_count >= 1
  /\ Len(agents) = 1
  /\ agents[1].alive /\ ~IsAtHome(agents[1])
  /\ before[1].collected_calories = MaxCollected
  /\ agents[1].collected_calories < MaxCollected

(***************************************************************************)
(* Claims about the construction of the world                              *)
(***************************************************************************)
\* C20 (cluster size bounds): every record in World.clusters has at least
\* one member cell, at most as many member cells as the target size drawn
\* for it, a target size of at most the configured maximum of its resource
\* type, no cell listed twice, and a recorded size equal to the length of its
\* member list.
C20_ClusterSizeBounds ==
  \A k \in 1..Len(clusters) :
    LET c == clusters[k]
        maximum == IF c.type = "food" THEN FOOD_CLUSTER_SIZE_MAX
                   ELSE WATER_CLUSTER_SIZE_MAX
    IN  /\ 1 <= Len(c.cells)
        /\ Len(c.cells) <= c.target_size
        /\ c.target_size <= maximum
        /\ c.size = Len(c.cells)
        /\ Cardinality({c.cells[i] : i \in 1..Len(c.cells)}) = Len(c.cells)

\* C20 witness: a constructed world with a cluster that reached the largest
\* size of its type and a cluster whose growth stopped short of its target
C20_Witness ==
  /\ Len(clusters) = ClusterCount
  /\ \E k \in 1..Len(clusters) :
       clusters[k].size = FOOD_CLUSTER_SIZE_MAX /\ clusters[k].type = "food"
  /\ \E k \in 1..Len(clusters) :
       clusters[k].size < clusters[k].target_size

\* C21 (no cell claimed twice): in a constructed world the member lists of
\* two distinct clusters share no cell, no cell is listed twice in one list,
\* and every listed cell carries the cluster_id and the resource_type of the
\* cluster that lists it, wherever the random centers fell.
C21_ClustersDisjoint ==
  Len(clusters) = ClusterCount =>
    \A k \in 1..Len(clusters) :
      LET c == clusters[k]
      IN  /\ \A i, j \in 1..Len(c.cells) : c.cells[i] = c.cells[j] => i = j
          /\ \A i \in 1..Len(c.cells) :
               /\ grid[c.cells[i]].cluster_id = c.id
               /\ grid[c.cells[i]].resource_type = c.type
          /\ \A m \in 1..Len(clusters) :
               m # k => \A i \in 1..Len(c.cells) : \A j \in 1..Len(clusters[m].cells) :
                          c.cells[i] # clusters[m].cells[j]

(***************************************************************************)
(* Claims about the time system's counters and its flag                    *)
(***************************************************************************)
\* C22 (cycle and day counters): TimeSystem.update returns True exactly when
\* is_day changed in the call; every transition adds exactly 1 to
\* time_cycles; a night->day transition also adds exactly 1 to day_count and
\* a day->night transition leaves day_count as it was; a call that makes no
\* transition changes nothing of the time system.
C22_CycleCounters ==
  [][LET transition == time'.is_day # time.is_day
     IN  /\ changed' <=> transition
         /\ transition =>
              /\ time'.time_cycles = time.time_cycles + 1
              /\ time'.day_count = time.day_count + (IF time'.is_day THEN 1 ELSE 0)
         /\ ~transition => time' = time
    ]_vars

\* C22 witness: the second day has begun on the fourth transition, just
\* reported by the call
C22_Witness ==
  /\ changed /\ time.is_day
  /\ time.day_count = 2 /\ time.time_cycles = 4
  /\ Len(agents) = MaxListed

\* C23 (is_day has one writer): is_day changes only in a tick of the game,
\* and only as one of the TimeSystem's two transitions makes it change (the
\* flag, current_state and the counters together); neither the agents'
\* updates nor the world's update, the nightfall penalty, a pause or a
\* restart changes it.
C23_OnlyTransitionsWriteIsDay ==
  [][time'.is_day # time.is_day =>
       /\ game'.turns = game.turns + 1
       /\ time' = IF time.is_day THEN TransitionToNight(time) ELSE TransitionToDay(time)
    ]_vars

\* C24 (clusters fixed at construction): the constructed world's resource
\* cells are exactly the cells its cluster records list; afterwards no
\* World.update and no consume_resources call changes the cluster records,
\* a cell's cluster_id or a cell's resource_type, and only listed cells are
\* ever FULL or hold resources, so a cell of no cluster never becomes FULL.
C24_ClustersFixed ==
  /\ \A p \in Pos :
       CellHasResources(grid[p])
         <=> \E k \in 1..Len(clusters) : \E i \in 1..Len(clusters[k].cells) :
               clusters[k].cells[i] = p
  /\ [][/\ clusters' = clusters
        /\ \A p \in Pos :
             /\ grid'[p].cluster_id = grid[p].cluster_id
             /\ grid'[p].resource_type = grid[p].resource_type
             /\ (CellHasResources(grid'[p]) \/ grid'[p].resources > 0)
                  => \E k \in 1..Len(clusters) : \E i \in 1..Len(clusters[k].cells) :
                       clusters[k].cells[i] = p
       ]_vars

\* C24 witness: a listed cell has been consumed and has regrown to FULL by
\* World.update, next to a cell of no cluster that is still empty
C24_Witness ==
  /\ ret.op = "update"
  /\ \E k \in 1..Len(clusters) : \E i \in 1..Len(clusters[k].cells) :
       /\ drawnAt[clusters[k].cells[i]] = "completion"
       /\ CellHasResources(grid[clusters[k].cells[i]])
  /\ \E q \in Pos : grid[q].cluster_id = NoCluster /\ ~CellHasResources(grid[q])

(***************************************************************************)
(* Claims about the end of the game                                        *)
(***************************************************************************)
\* C25 (all-dead is terminal and quiescent): the tick that leaves no agent
\* alive leaves the game in the game-over state, with the time system as a
\* call without transition leaves it; from then on, until a restart, the
\* game stays in the game-over state and no step changes the world's cells,
\* the agents or the time system.
C25_AllDeadQuiescent ==
  [][LET dead(as) == \A i \in 1..Len(as) : ~as[i].alive
         restarted == game'.turns = 0 /\ ~dead(agents')
     IN  /\ (~dead(agents) /\ dead(agents') /\ ~game'.crashed)
              => game'.state = STATE_GAME_OVER /\ time' = time /\ ~changed'
         /\ (dead(agents) /\ ~restarted)
              => /\ game'.state = STATE_GAME_OVER
                 /\ grid' = grid
                 /\ agents' = agents
                 /\ time' = time
    ]_vars

(***************************************************************************)
(* Claims about the lifecycle agent                                        *)
(***************************************************************************)
\* C26 (lifecycle tick): tick() on a living agent adds 1 to age, takes the
\* metabolism rate 1 from energy and changes nothing else but alive, which
\* it clears exactly when the energy left is <= 0; tick() on a dead agent
\* changes nothing; die() clears alive and nothing else, also on a dead
\* agent.  So an agent created with energy n > 0 on which only tick() and
\* move() were called has energy n - age, is alive while age < n and is dead
\* with energy 0 from its n-th tick on.
C26_LifecycleTick ==
  [][LET a == lifecycle
         b == lifecycle'
         n == lifecycleCall'.ticked_from
     IN  /\ lifecycleCall'.op = "tick" =>
              IF a.alive
              THEN /\ b = [a EXCEPT !.age = a.age + 1, !.energy = a.energy - 1,
                                    !.alive = b.alive]
                   /\ b.alive <=> b.energy > 0
              ELSE b = a
         /\ lifecycleCall'.op = "die" => b = [a EXCEPT !.alive = FALSE]
         /\ n > 0 => /\ b.energy = n - b.age
                     /\ b.alive <=> b.age < n
                     /\ ~b.alive => b.energy = 0 /\ b.age = n
    ]_vars

\* C26 witness: the agent created with the largest energy has died of its
\* last tick, having never eaten
C26_Witness ==
  /\ lifecycleCall.op = "tick"
  /\ lifecycleCall.ticked_from = MaxInitialEnergy
  /\ lifecycle.age = MaxInitialEnergy
  /\ lifecycle.energy = 0
  /\ ~lifecycle.alive

\* C27 (lifecycle reproduction): can_reproduce() is true exactly when the
\* agent is alive, its age is at least MATURITY_AGE and its energy at least
\* REPRODUCTION_ENERGY_THRESHOLD.  reproduce(id) then takes exactly the
\* reproduction cost (50 in the code) from the parent's energy, changes
\* nothing else of the parent and returns a new living agent with that id,
\* the parent's position, the offspring energy (50 in the code) and age 0;
\* otherwise it returns None and leaves the parent as it was.
C27_LifecycleReproduction ==
  [][LET a == lifecycle
         b == lifecycle'
         offspring == lifecycleCall'.returned
         can == a.alive /\ a.age >= MATURITY_AGE
                  /\ a.energy >= REPRODUCTION_ENERGY_THRESHOLD
     IN  /\ LifecycleCanReproduce(a) <=> can
         /\ lifecycleCall'.op = "reproduce" =>
              IF can
              THEN /\ b = [a EXCEPT !.energy = a.energy - REPRODUCTION_COST]
                   /\ offspring = [id |-> 2, position |-> a.position,
                                   energy |-> OFFSPRING_ENERGY, age |-> 0,
                                   alive |-> TRUE, metabolism_rate |-> 1]
              ELSE /\ b = a
                   /\ offspring = NoAgent
    ]_vars

\* C27 witness: a mature agent that had moved away and eaten has reproduced,
\* and its offspring was returned at the position it moved to
C27_Witness ==
  /\ lifecycleCall.op = "reproduce"
  /\ lifecycleCall.returned # NoAgent
  /\ lifecycleCall.returned.position = <<5, 5>>
  /\ lifecycle.position = <<5, 5>>
  /\ lifecycle.age >= MATURITY_AGE
  /\ lifecycle.alive

\* C28 (lifecycle eating and moving): eat(f) with f >= 0 leaves the energy at
\* min(energy + f, cap), the cap being 200 in the code, and changes nothing
\* else, so the energy is at most the cap after any eat; move(p) sets the
\* position to p and changes nothing else; tick() never changes the position.
C28_LifecycleEatAndMove ==
  [][LET a == lifecycle
         b == lifecycle'
         f == lifecycleCall'.food_energy
     IN  /\ lifecycleCall'.op = "eat" =>
              /\ b = [a EXCEPT !.energy = IF a.energy + f <= MAX_ENERGY
                                          THEN a.energy + f ELSE MAX_ENERGY]
              /\ b.energy <= MAX_ENERGY
         /\ lifecycleCall'.op = "move" =>
              /\ b.position \in LifecyclePositions
              /\ b = [a EXCEPT !.position = b.position]
         /\ lifecycleCall'.op = "tick" => b.position = a.position
    ]_vars

\* C28 witness: the largest meal has just been cut off at the cap, on an
\* agent that had moved to (5, 5) and ticked there
C28_Witness ==
  /\ lifecycleCall.op = "eat"
  /\ lifecycleCall.food_energy = MaxFood
  /\ lifecycle.energy = MAX_ENERGY
  /\ lifecycle.position = <<5, 5>>
  /\ lifecycle.age > 0

(***************************************************************************)
(* Claims about the way home                                               *)
(***************************************************************************)
\* C29 (homing path shape): once _calculate_path_to_home has been called on
\* an agent (which it does not move), the path it left has
\* exactly as many cells as the Manhattan distance to home; each cell is one
\* step along one axis from the cell before it (the first from the agent's
\* position); the steps along x all come before the steps along y; every
\* cell lies between the agent and home on both axes, and so is in bounds
\* when the agent is; the last cell is the home coordinate; and the path is
\* empty exactly when the agent is at home.
C29_PathShape ==
  call.made =>
    LET a == agents[1]
        path == a.path_to_home
        home == HOME_BASE_POSITION
        steps_x == Abs(home[1] - a.x)
        steps_y == Abs(home[2] - a.y)
        Before(i) == IF i = 1 THEN <<a.x, a.y>> ELSE path[i - 1]
        Between(v, u, w) == (u <= v /\ v <= w) \/ (w <= v /\ v <= u)
    IN  /\ Len(path) = steps_x + steps_y
        /\ \A i \in 1..Len(path) :
             /\ Abs(path[i][1] - Before(i)[1]) + Abs(path[i][2] - Before(i)[2]) = 1
             /\ i <= steps_x => path[i][2] = a.y
             /\ i > steps_x => path[i][1] = home[1]
             /\ Between(path[i][1], a.x, home[1])
             /\ Between(path[i][2], a.y, home[2])
             /\ IsValidPosition(a.x, a.y) => IsValidPosition(path[i][1], path[i][2])
        /\ Len(path) > 0 => path[Len(path)] = home
        /\ path = <<>> <=> (a.x = home[1] /\ a.y = home[2])

\* C29 witness: the path of an agent created PathReach to the right of and
\* PathReach below home has been computed: it is 2 * PathReach cells long
\* and ends at home
C29_Witness ==
  /\ call.made
  /\ agents[1].x = HOME_BASE_POSITION[1] + PathReach
  /\ agents[1].y = HOME_BASE_POSITION[2] + PathReach
  /\ Len(agents[1].path_to_home) = 2 * PathReach
  /\ agents[1].path_to_home[2 * PathReach] = HOME_BASE_POSITION

(***************************************************************************)
(* Claims about the agents sharing the world                               *)
(***************************************************************************)
\* C30 (no double collection): in every daytime tick of the game the
\* collected calories the agents gain in their updates, summed over the
\* agents, equal the amounts held by the cells that were FULL before the
\* tick and are not FULL after it, summed over those cells: each consumed
\* cell is credited in full to one agent, the first to land on it, and to no
\* other.
C30_NoDoubleCollection ==
  [][LET ticked == game'.turns = game.turns + 1 \/ (game'.crashed /\ ~game.crashed)
         updated == IF game'.crashed THEN agents' ELSE before'
         consumed == {p \in Pos : CellHasResources(grid[p]) /\ ~CellHasResources(grid'[p])}
         RECURSIVE Gained(_)
         Gained(i) == IF i = 0 THEN 0
                      ELSE Gained(i - 1) + updated[i].collected_calories
                                         - agents[i].collected_calories
         RECURSIVE Amounts(_)
         Amounts(S) == IF S = {} THEN 0
                       ELSE LET p == CHOOSE q \in S : TRUE
                            IN  grid[p].resources + Amounts(S \ {p})
     IN  (ticked /\ time.is_day) => Gained(Len(agents)) = Amounts(consumed)
    ]_vars

(***************************************************************************)
(* Claims about the growth of a cluster                                    *)
(***************************************************************************)
\* C31 (cluster growth terminates): whatever the random draws, the while
\* loop of _grow_cluster makes at most one pass per cell of the world and then
\* stops; the cluster never has more cells than its target size, no cell
\* enters cells_to_process more than once, and once the loop has stopped the
\* cluster has exactly its target size or cells_to_process is empty.
C31_GrowthTerminates ==
  /\ growth.passes <= Cardinality(Pos)
  /\ Len(growth.cells) <= growth.target_size
  /\ \A p \in Pos : growth.entered[p] <= 1
  /\ ~GrowContinues =>
       (Len(growth.cells) = growth.target_size \/ growth.queue = <<>>)

\* C31 witness: a call that stopped short of its target size with an empty
\* cells_to_process after admitting a cell
C31_Witness ==
  /\ growth.passes > 1
  /\ ~GrowContinues
  /\ growth.queue = <<>>
  /\ 1 < Len(growth.cells)
  /\ Len(growth.cells) < growth.target_size

C33_NearestResource ==
  nearest.made =>
    LET Chebyshev(p) == IF Abs(p[1] - nearest.x) > Abs(p[2] - nearest.y)
                        THEN Abs(p[1] - nearest.x) ELSE Abs(p[2] - nearest.y)
        qualifying == {p \in Pos : /\ CellHasResources(grid[p])
                                   /\ \/ nearest.resource_type = NoType
                                      \/ grid[p].resource_type = nearest.resource_type}
        within == {p \in qualifying :
                     nearest.max_distance = NoDistance \/ Chebyshev(p) <= nearest.max_distance}
    IN  IF within = {}
        THEN nearest.distance = NoDistance /\ nearest.cell = NoPosition
        ELSE /\ nearest.cell \in within
             /\ nearest.distance = Chebyshev(nearest.cell)
             /\ \A p \in within : nearest.distance <= Chebyshev(p)

(***************************************************************************)
(* Claims about where the agents are and how often they move               *)
(***************************************************************************)
\* C34 (agents stay in the world): an agent created inside the world is
\* inside it in every reachable state, 0 <= x < width and 0 <= y < height,
\* and no update, foraging or homing, changes x or y by more than 1.
C34_InBounds ==
  /\ [](\A i \in 1..Len(agents) : IsValidPosition(agents[i].x, agents[i].y))
  /\ [][\A i \in 1..Len(agents) :
          /\ Abs(agents'[i].x - agents[i].x) <= 1
          /\ Abs(agents'[i].y - agents[i].y) <= 1]_vars

\* C34 witness: an agent that reached the left edge of the world by a step
\* to the left
C34_Witness ==
  /\ call.made /\ call.is_day /\ call.alive /\ call.raised
  /\ agents[1].x = 0
  /\ agents[1].last_dx = 0 - 1

\* C35 (daily move budget): in every reachable state every agent has
\* 0 <= moves_today <= MOVES_PER_DAY, and an agent whose moves_today has
\* reached MOVES_PER_DAY is not moved by any further update, foraging or
\* homing.
C35_MoveBudget ==
  /\ [](\A i \in 1..Len(agents) :
          0 <= agents[i].moves_today /\ agents[i].moves_today <= MOVES_PER_DAY)
  /\ [][\A i \in 1..Len(agents) :
          agents[i].moves_today >= MOVES_PER_DAY
            => (agents'[i].x = agents[i].x /\ agents'[i].y = agents[i].y)]_vars

\* C36 (heading back in time): on the daytime update in which a living agent
\* switches to returning home, its Manhattan distance to home is at most the
\* moves it has left for the day, MOVES_PER_DAY - moves_today, so that the
\* path home fits into the rest of the day.
C36_HeadsBackInTime ==
  [][LET a == agents[1]
     IN  (call'.is_day /\ a.alive /\ StartsReturning(a, MOVES_PER_DAY))
           => GetDistanceToHome(a) <= MOVES_PER_DAY - a.moves_today
    ]_vars

(***************************************************************************)
(* Claims about the night                                                  *)
(***************************************************************************)
\* C37 (every night ends): from a nightfall with at least one living agent,
\* whatever the sleep energies of the agents, the ticks of the game lead to
\* the next day or to a state in which every agent is dead, and an agent that
\* is alive after its first nightly consumption is not killed by a later tick
\* of the same night.
C37_NightEnds ==
  /\ <>(time.is_day \/ \A i \in 1..Len(agents) : ~agents[i].alive)
  /\ [][\A i \in 1..Len(agents) :
          (~time.is_day /\ nightly[i].eaten >= 1 /\ agents[i].alive) => agents'[i].alive]_vars

\* C38 (start-of-day state): on every tick on which the night gives way to
\* the day (_transition_to_day counts a new day), every living agent has
\* sleep_energy = max_sleep_energy, moves_today = 0, is not sleeping, is not
\* returning home and is in the foraging state STATE_ACTIVE.
C38_StartOfDay ==
  [][time'.day_count # time.day_count
       => \A i \in 1..Len(agents') :
            agents'[i].alive
              => /\ agents'[i].sleep_energy = MAX_SLEEP
                 /\ agents'[i].moves_today = 0
                 /\ ~agents'[i].is_sleeping
                 /\ ~agents'[i].returning_home
                 /\ agents'[i].state = STATE_ACTIVE
    ]_vars

\* C38 witness: the first daybreak, reached by two living agents that both
\* slept and woke in the night
C38_Witness ==
  /\ changed /\ time.is_day /\ time.day_count = 1
  /\ Len(agents) = 2
  /\ \A i \in 1..2 : agents[i].alive /\ nightly[i].eaten = 1 /\ nightly[i].woken = 1
  /\ \E i \in 1..2 : before[i].days_survived = 1

(***************************************************************************)
(* Claims about the counters of an agent                                   *)
(***************************************************************************)
\* C39 (distance travelled): a daytime foraging move that is accepted, so
\* that the agent stands on a new cell after it, raises
\* total_distance_traveled by the Manhattan length of the step, which is 1
\* or 2; the counter is therefore the sum of the lengths of the accepted
\* foraging moves and positive after the first of them.
C39_DistanceTraveled ==
  [][LET a == agents[1]
         b == agents'[1]
         length == Abs(b.x - a.x) + Abs(b.y - a.y)
     IN  (call'.is_day /\ Forages(a, MOVES_PER_DAY) /\ length # 0)
           => /\ length \in {1, 2}
              /\ b.total_distance_traveled = a.total_distance_traveled + length
              /\ b.total_distance_traveled > 0
    ]_vars

(***************************************************************************)
(* Claims about the consistency of the time system                         *)
(***************************************************************************)
\* C40 (time system self-consistent): in every reachable state of the game,
\* the states after a restart during the night included, is_day is true
\* exactly when current_state is STATE_DAY, and time_cycles is
\* 2 * day_count by day and 2 * day_count + 1 by night.
C40_TimeConsistent ==
  /\ time.is_day <=> time.current_state = STATE_DAY
  /\ time.time_cycles = 2 * time.day_count + (IF time.is_day THEN 0 ELSE 1)

====
